---------------------------- MODULE Spec2Model ----------------------------
(***************************************************************************)
(* Weight Proof v2 (chia/full_node/weight_proof_v2.py): the handler that   *)
(* builds a weight proof under a construction lock, the validator that     *)
(* checks one in stages, the sampling replay and the fork-point resolver.  *)
(*                                                                         *)
(* The module holds several specifications over one set of variables, one  *)
(* per part of the program; a part's specification leaves the variables of *)
(* the other parts at their idle values.                                   *)
(*   SpecFork     get_fork_point on every local chain / received list      *)
(*   SpecSampling the builder's sampling loop, then validate_sub_epoch_    *)
(*                sampling on the proof with any list of segments          *)
(*   SpecValidate get_proof_of_weight, the proof in flight, then           *)
(*                validate_weight_proof as a task with its worker pool     *)
(*   SpecHandler  concurrent get_proof_of_weight tasks on one handler      *)
(*                                                                         *)
(* Conventions: an Optional[T] is the empty sequence (None) or <<v>>;      *)
(* a call that can raise returns a record whose kind names the exception;  *)
(* Python's 0-based list index i is the TLA+ index i + 1.                  *)
(***************************************************************************)
EXTENDS Integers, Sequences, FiniteSets, TLC

VARIABLES
    fk_in, fk_out,                       \* SpecFork
    sm_in, sm_out,                       \* SpecSampling
    v_in, v_wp, v_pc, v_sum, v_task, v_recent, v_done, v_seen, v_ret,  \* SpecValidate
    tip, proof, locked, waiters, pc, arg, exits, returned,  \* SpecHandler
    pf_in, pf_out                        \* SpecRecords

fvars == <<fk_in, fk_out>>
svars == <<sm_in, sm_out>>
vvars == <<v_in, v_wp, v_pc, v_sum, v_task, v_recent, v_done, v_seen, v_ret>>
hvars == <<tip, proof, locked, waiters, pc, arg, exits, returned>>
pvars == <<pf_in, pf_out>>
vars  == <<fvars, svars, vvars, hvars, pvars>>

---------------------------------------------------------------------------
(* Optionals and small helpers *)

NoneV == <<>>
Some(v) == <<v>>
IsNone(o) == o = <<>>
Get(o) == o[1]

Min(a, b) == IF a < b THEN a ELSE b
Max(a, b) == IF a > b THEN a ELSE b

\* All sequences over S of length lo..hi
SeqsOf(S, lo, hi) == UNION {[1..n -> S] : n \in lo..hi}

---------------------------------------------------------------------------
(* Bounds of the model (not program constants) *)

MaxSes == 4            \* SpecFork: most sub-epoch summaries of a chain or list

---------------------------------------------------------------------------
(* Consensus constants. The repository injects them through               *)
(* ConsensusConstants (chia/consensus/constants.py, not among the source   *)
(* files); the model gives them small values.                              *)

SUB_EPOCH_BLOCKS == 4

---------------------------------------------------------------------------
(* 4.6 Fork-point resolver: WeightProofHandlerV2.get_fork_point            *)

\* blockchain.get_ses_heights() of a chain with n summaries: ascending heights
SesHeightsOf(n) == [i \in 1..n |-> i * SUB_EPOCH_BLOCKS]

\* The height of the last matching summary itself, with no back-off
ForkHeightNoBackoff(ses_heights, fork_point_index) ==
    IF fork_point_index > 2 THEN ses_heights[fork_point_index + 1] ELSE 0

\* lines 147-151: the two-summary back-off (fork_point_index is 0-based)
ForkHeight(ses_heights, fork_point_index) ==
    IF fork_point_index > 2 THEN ses_heights[(fork_point_index - 2) + 1] ELSE 0

\* lines 138-143: the loop over enumerate(ses_heights), from 0-based idx on.
\* local[idx+1] is blockchain.get_ses(ses_heights[idx]) as an Optional hash.
\* received_summaries[idx] past the end of the list raises IndexError; the
\* "local_ses is None" test comes first and breaks without indexing.
RECURSIVE ForkLoop(_, _, _, _)
ForkLoop(local, received, idx, fork_point_index) ==
    IF idx >= Len(local) THEN [kind |-> "ok", index |-> fork_point_index]
    ELSE IF IsNone(local[idx + 1]) THEN [kind |-> "ok", index |-> fork_point_index]
    ELSE IF idx >= Len(received) THEN [kind |-> "IndexError", index |-> fork_point_index]
    ELSE IF Get(local[idx + 1]) # received[idx + 1]
         THEN [kind |-> "ok", index |-> fork_point_index]
    ELSE ForkLoop(local, received, idx + 1, idx)

\* lines 134-152
GetForkPoint(ses_heights, local, received) ==
    LET r == ForkLoop(local, received, 0, 0)
    IN  IF r.kind = "ok"
        THEN [kind |-> "ok", height |-> ForkHeight(ses_heights, r.index)]
        ELSE [kind |-> r.kind, height |-> 0]

\* Summary hashes: "a" is the hash of the local summary at an index, "b" any
\* other hash; a local chain may miss a summary (get_ses returns None)
ForkLocals == SeqsOf({NoneV, Some("a")}, 0, MaxSes)
ForkReceived == SeqsOf({"a", "b"}, 0, MaxSes)

---------------------------------------------------------------------------
(* 4.1 Sampling oracle                                                     *)

MaxSubEpochs == 5      \* most sub-epoch summaries of a chain
NumQueries == 3        \* draws of _get_weights_for_sampling (int(queries) + 1)

\* WeightProofHandlerV2.MAX_SAMPLES (line 54) is 140; the model's chains have
\* at most MaxSubEpochs sub-epochs, so the cap is scaled to 2 to be reached.
MAX_SAMPLES == 2

Seeds == {1, 2, 4}

\* random.Random(seed): a deterministic stream of draws fixed by the seed.
\* Draw(seed, pos) stands for the pos-th value the generator yields (pos
\* from 0), as a level in 0..7 of [0, 1); the generator itself (Mersenne
\* Twister) is replaced by a small congruential formula.
Draw(seed, pos) == (3 * seed + (2 * seed + 1) * pos * pos + pos) % 8

\* rng.choice(range(n)) at stream position pos: the index is taken from the
\* high bits of the value the generator yields there
Choice(seed, pos, n) == (Draw(seed, pos) \div 2) % n

\* list.sort() of line 572 (insertion sort on a short sequence)
RECURSIVE InsertSorted(_, _)
InsertSorted(s, x) ==
    IF s = <<>> THEN <<x>>
    ELSE IF x <= Head(s) THEN <<x>> \o s
    ELSE <<Head(s)>> \o InsertSorted(Tail(s), x)

RECURSIVE SortAsc(_)
SortAsc(s) == IF s = <<>> THEN <<>> ELSE InsertSorted(SortAsc(Tail(s)), Head(s))

\* lines 559-573. delta = last_l_weight / total_weight raises
\* ZeroDivisionError for total_weight = 0; math.log(C, delta) raises
\* ValueError for delta <= 0 and ZeroDivisionError for delta = 1;
\* prob_of_adv_succeeding = 1 - log_delta(0.5) is <= 0 exactly when
\* delta >= 1/2 (for 0 < delta < 1). A draw u gives the weight
\* (1 - delta^u) * total_weight, which runs from 0 up to (not reaching)
\* total_weight - last_l_weight as u runs over [0, 1): the model
\* interpolates linearly over the 8 levels of Draw.
\* lines 565-566: the number of draws, int(queries) + 1, falls as delta
\* grows; in the model it is NumQueries for delta < 2/5 and one less from
\* there up to 1/2
Queries(total_weight, last_l_weight) ==
    IF 5 * last_l_weight >= 2 * total_weight THEN NumQueries - 1 ELSE NumQueries

\* A test that never finds the probability non-positive
NeverNonPositive(total_weight, last_l_weight) == FALSE

\* lines 560-563: prob_of_adv_succeeding = 1 - log(C, delta) <= 0 with
\* C = 0.5 and 0 < delta < 1, that is delta >= 1/2
NonPositive(total_weight, last_l_weight) == 2 * last_l_weight >= total_weight

GetWeightsForSampling(seed, total_weight, last_l_weight) ==
    IF total_weight = 0 THEN [kind |-> "ZeroDivisionError", w |-> <<>>, pos |-> 0]
    ELSE IF last_l_weight <= 0 THEN [kind |-> "ValueError", w |-> <<>>, pos |-> 0]
    ELSE IF last_l_weight = total_weight
         THEN [kind |-> "ZeroDivisionError", w |-> <<>>, pos |-> 0]
    ELSE IF NonPositive(total_weight, last_l_weight)
         THEN [kind |-> "None", w |-> <<>>, pos |-> 0]
    ELSE [kind |-> "ok",
          w |-> SortAsc([i \in 1..Queries(total_weight, last_l_weight) |->
                    (Draw(seed, i - 1) * (total_weight - last_l_weight)) \div 8]),
          pos |-> Queries(total_weight, last_l_weight)]

\* weight_proof_common._sample_sub_epoch, from the specification: the
\* sub-epoch [w_prev, w_cur) is sampled iff some sample w has w_prev <= w < w_cur
SampleSubEpoch(start_of_epoch_weight, end_of_epoch_weight, weight_to_check) ==
    \E i \in 1..Len(weight_to_check) :
        /\ start_of_epoch_weight <= weight_to_check[i]
        /\ weight_to_check[i] < end_of_epoch_weight

---------------------------------------------------------------------------
(* 3. Data model                                                           *)

\* Injected consensus constants (small values in the model)
GENESIS_CHALLENGE == <<"genesis">>
DIFFICULTY_STARTING == 1
SUB_SLOT_ITERS_STARTING == 8
MIN_BLOCKS_PER_CHALLENGE_BLOCK == 2
WEIGHT_PROOF_THRESHOLD == 2
WEIGHT_PROOF_RECENT_BLOCKS == 8

\* std_hash / get_hash(): an injective encoding of the hashed value
StdHash(tag, v) == <<tag, v>>

\* SubEpochSummary(prev_subepoch_summary_hash, reward_chain_hash,
\* num_blocks_overflow, new_difficulty, new_sub_slot_iters)
SubEpochSummary(prev, rc, ov, diff, ssi) ==
    [prev_subepoch_summary_hash |-> prev, reward_chain_hash |-> rc,
     num_blocks_overflow |-> ov, new_difficulty |-> diff, new_sub_slot_iters |-> ssi]

SesHash(ses) == StdHash("ses", ses)

\* SubEpochData(reward_chain_hash, num_blocks_overflow, new_sub_slot_iters,
\* new_difficulty)
SubEpochData(rc, ov, ssi, diff) ==
    [reward_chain_hash |-> rc, num_blocks_overflow |-> ov,
     new_sub_slot_iters |-> ssi, new_difficulty |-> diff]

\* An image with the two optional fields in each other's place
SwappedSubEpochData(ses) ==
    SubEpochData(ses.reward_chain_hash, ses.num_blocks_overflow,
                 ses.new_difficulty, ses.new_sub_slot_iters)

\* lines 577-586
CreateSubEpochData(ses) ==
    SubEpochData(ses.reward_chain_hash, ses.num_blocks_overflow,
                 ses.new_sub_slot_iters, ses.new_difficulty)

\* SubSlotDataV2, the fifteen fields in constructor order (lines 658-678).
\* A VDF proof or proof of space is "ok" or "bad": what verify_compressed_vdf,
\* VDFProof.is_valid or verify_and_get_quality_string answer for it.
SubSlotDataV2(pos, cc_sp, cc_ip, spi, cc_se, sp_out, ip_out, se_out, icc_ip, icc_ip_out, icc_se, icc_se_out, sig, ip_iters, total_iters) ==
    [proof_of_space |-> pos, cc_signage_point |-> cc_sp, cc_infusion_point |-> cc_ip,
     signage_point_index |-> spi, cc_slot_end |-> cc_se, cc_sp_vdf_output |-> sp_out,
     cc_ip_vdf_output |-> ip_out, cc_slot_end_output |-> se_out,
     icc_infusion_point |-> icc_ip, icc_ip_vdf_output |-> icc_ip_out,
     icc_slot_end |-> icc_se, icc_slot_end_output |-> icc_se_out,
     cc_sp_signature |-> sig, ip_iters |-> ip_iters, total_iters |-> total_iters]

\* chia/types/weight_proof.py (not among the source files), from the
\* specification: is_end_of_slot() <=> any end-of-slot field is set;
\* is_challenge() <=> proof_of_space is set
IsEndOfSlot(ssd) ==
    \/ ~IsNone(ssd.cc_slot_end) \/ ~IsNone(ssd.cc_slot_end_output)
    \/ ~IsNone(ssd.icc_slot_end) \/ ~IsNone(ssd.icc_slot_end_output)

IsChallenge(ssd) == ~IsNone(ssd.proof_of_space)

\* handle_block_vdfs (lines 589-678) for a block with the given proofs:
\* chal says whether the block is a challenge block, sp whether it has a
\* signage point proof (its signage_point_index is 0 when it has none), icc
\* whether it has an icc infusion proof, v is the validity of its proofs,
\* out names its outputs
HandleBlockVdfs(chal, sp, icc, v, out, ip_iters, total_iters) ==
    SubSlotDataV2(IF chal THEN Some(v) ELSE NoneV,
                  IF sp THEN Some(v) ELSE NoneV, Some(v),
                  Some(IF sp THEN 1 ELSE 0), NoneV,
                  IF sp THEN Some(<<"sp", out>>) ELSE NoneV, Some(<<"ip", out>>), NoneV,
                  IF icc THEN Some(v) ELSE NoneV,
                  IF icc THEN Some(<<"icc", out>>) ELSE NoneV,
                  NoneV, NoneV, IF chal THEN Some("sig") ELSE NoneV,
                  Some(ip_iters), Some(total_iters))

\* A block with a signage point proof
BlockSsd(chal, v, out, icc, ip_iters, total_iters) ==
    HandleBlockVdfs(chal, TRUE, icc, v, out, ip_iters, total_iters)

\* An end-of-slot record that also carries total_iters
EosWithIters(v, out, icc) ==
    SubSlotDataV2(NoneV, NoneV, NoneV, NoneV, Some(v), NoneV, NoneV,
                  Some(<<"cce", out>>), NoneV, NoneV,
                  IF icc THEN Some(v) ELSE NoneV,
                  IF icc THEN Some(<<"icce", out>>) ELSE NoneV,
                  NoneV, NoneV, Some(0))

\* handle_finished_slots (lines 681-701) for an end-of-slot bundle; icc says
\* whether the bundle has an infused challenge chain
EosSsd(v, out, icc) ==
    SubSlotDataV2(NoneV, NoneV, NoneV, NoneV, Some(v), NoneV, NoneV,
                  Some(<<"cce", out>>), NoneV, NoneV,
                  IF icc THEN Some(v) ELSE NoneV,
                  IF icc THEN Some(<<"icce", out>>) ELSE NoneV,
                  NoneV, NoneV, NoneV)

\* SubEpochChallengeSegmentV2(sub_epoch_n, sub_slot_data, rc_slot_end_info,
\* cc_slot_end_info, icc_sub_slot_hash, prev_icc_ip_iters)
Segment(n, ssds, rc_info, cc_info, icc_hash, prev_icc_ip_iters) ==
    [sub_epoch_n |-> n, sub_slot_data |-> ssds, rc_slot_end_info |-> rc_info,
     cc_slot_end_info |-> cc_info, icc_sub_slot_hash |-> icc_hash,
     prev_icc_ip_iters |-> prev_icc_ip_iters]

\* lines 727-740, the loop from 1-based position i on
RECURSIVE CompressLoop(_, _, _)
CompressLoop(ssds, i, after_challenge) ==
    IF i > Len(ssds) THEN <<>>
    ELSE LET d == ssds[i]
             new_slot == IF after_challenge
                         THEN [d EXCEPT !.cc_signage_point = NoneV,
                                        !.cc_infusion_point = NoneV,
                                        !.cc_slot_end = NoneV,
                                        !.icc_infusion_point = NoneV,
                                        !.icc_slot_end = NoneV]
                         ELSE d
         IN  <<new_slot>> \o CompressLoop(ssds, i + 1, after_challenge \/ IsChallenge(d))

\* A compression that strips the proofs of every entry
StripWholeSegment(segment) ==
    [segment EXCEPT !.sub_slot_data = CompressLoop(segment.sub_slot_data, 1, TRUE)]

\* lines 716-741
CompressSegment(segment) ==
    [segment EXCEPT !.sub_slot_data = CompressLoop(segment.sub_slot_data, 1, FALSE)]

\* A compression that ships the full segment alone
OnlyFullSegment(full_segment_index, segments) == <<segments[full_segment_index + 1]>>

\* lines 704-713 (full_segment_index is 0-based)
CompressSegments(full_segment_index, segments) ==
    [i \in 1..Len(segments) |->
        IF i - 1 # full_segment_index THEN CompressSegment(segments[i]) ELSE segments[i]]

---------------------------------------------------------------------------
(* 4. Segment validation (worker side)                                     *)
(* A validator returns a record whose kind is "ok", "None" (the code       *)
(* returns None or False) or the name of the exception it raises.  The     *)
(* class-group arithmetic is reduced to the verdict of each proof; the     *)
(* long_outputs cache is not modelled.                                     *)

\* Truthiness of an Optional integer (assert x)
Truthy(o) == ~IsNone(o) /\ Get(o) # 0

\* verify_compressed_vdf / VDFProof.is_valid / verify_and_get_quality_string
Verify(p) == Get(p) = "ok"

\* is_overflow_block (chia/consensus/pot_iterations.py, not among the source
\* files): signage point index at or above NUM_SPS_SUB_SLOT -
\* NUM_SP_INTERVALS_EXTRA
OVERFLOW_SP_INDEX == 3
IsOverflowBlock(signage_point_index) == signage_point_index >= OVERFLOW_SP_INDEX

Ok == [kind |-> "ok"]
RetNone == [kind |-> "None"]
Raise(e) == [kind |-> e]

\* A choice that keeps the challenge of the current slot for every block
CurrentChallenge(is_overflow, challenge, prev_challenge) == Some(challenge)

\* lines 1188-1194 and 1248-1252: the challenge of the signage-point VDF and
\* of the proof of space, an Optional as prev_challenge is
OverflowChallenge(is_overflow, challenge, prev_challenge) ==
    IF is_overflow THEN prev_challenge ELSE Some(challenge)

\* lines 1169-1269; i is the 1-based position of the challenge entry.  The
\* result carries the hash of the ChallengeBlockInfo and the challenges
\* handed to verify_compressed_vdf (signage point, infusion point) and to
\* __validate_pospace
ValidateChallengeSubSlotData(sub_slots, i, challenge, prev_challenge, sampled) ==
    LET d == sub_slots[i]
        has_prev == i > 1 /\ ~IsEndOfSlot(sub_slots[i - 1])
        ovf == IsOverflowBlock(Get(d.signage_point_index))
        sp_challenge == IF IsNone(d.cc_signage_point) THEN NoneV
                        ELSE OverflowChallenge(ovf, challenge, prev_challenge)
        pospace_challenge == IF sampled THEN OverflowChallenge(ovf, challenge, prev_challenge)
                             ELSE NoneV
        sp_info == IF IsNone(d.cc_signage_point) THEN NoneV
                   ELSE Some(<<Get(sp_challenge), d.cc_sp_vdf_output>>)
    IN  IF IsNone(d.signage_point_index) THEN Raise("AssertionError")
        ELSE IF ~IsNone(d.cc_signage_point) /\ IsNone(d.cc_sp_vdf_output)
             THEN Raise("AssertionError")
        ELSE IF ~IsNone(d.cc_signage_point) /\ ovf /\ IsNone(prev_challenge)
             THEN Raise("AssertionError")
        ELSE IF ~IsNone(d.cc_signage_point) /\ ~Verify(d.cc_signage_point) THEN RetNone
        ELSE IF IsNone(d.cc_infusion_point) THEN Raise("AssertionError")
        ELSE IF has_prev /\ (IsNone(sub_slots[i - 1].cc_ip_vdf_output)
                             \/ ~Truthy(d.total_iters)
                             \/ ~Truthy(sub_slots[i - 1].total_iters))
             THEN Raise("AssertionError")
        ELSE IF has_prev /\ Get(d.total_iters) = Get(sub_slots[i - 1].total_iters)
             THEN Raise("AssertionError")
        ELSE IF IsNone(d.cc_ip_vdf_output) THEN Raise("AssertionError")
        ELSE IF ~Verify(d.cc_infusion_point) THEN RetNone
        ELSE IF sampled /\ ovf /\ IsNone(prev_challenge) THEN Raise("AssertionError")
        ELSE IF sampled /\ ~Verify(d.proof_of_space) THEN RetNone
        ELSE [kind |-> "ok",
              hash |-> StdHash("cbi", <<d.proof_of_space, sp_info, d.cc_sp_signature,
                                        <<challenge, d.ip_iters, d.cc_ip_vdf_output>>>>),
              sp_challenge |-> sp_challenge, ip_challenge |-> challenge,
              pospace_challenge |-> pospace_challenge]

\* lines 1116-1166; i >= 2 because the entry follows the challenge block
ValidateEos(sub_slots, i) ==
    LET ssd == sub_slots[i]
        prev_ssd == sub_slots[i - 1]
    IN  IF ~IsEndOfSlot(prev_ssd) /\ IsNone(ssd.cc_slot_end) THEN Raise("AssertionError")
        ELSE IF ~IsEndOfSlot(prev_ssd)
                /\ (IsNone(prev_ssd.cc_ip_vdf_output) \/ ~Truthy(prev_ssd.ip_iters))
             THEN Raise("AssertionError")
        ELSE IF IsNone(ssd.cc_slot_end_output) THEN Raise("AssertionError")
        ELSE IF IsNone(ssd.cc_slot_end) THEN Raise("AssertionError")
        ELSE IF ~Verify(ssd.cc_slot_end) THEN RetNone
        ELSE IF IsNone(ssd.icc_slot_end_output) THEN Raise("AssertionError")
        ELSE IF IsNone(ssd.icc_slot_end) THEN Raise("AssertionError")
        ELSE IF ~Verify(ssd.icc_slot_end) THEN RetNone
        ELSE Ok

\* lines 1272-1368
ValidateSubSlotData(sub_slots, i, prev_cc_sub_slot_hash) ==
    LET d == sub_slots[i]
        prev_ssd == sub_slots[i - 1]
    IN  IF ~IsNone(d.cc_signage_point)
           /\ (IsNone(d.cc_sp_vdf_output) \/ IsNone(d.signage_point_index))
        THEN Raise("AssertionError")
        ELSE IF ~IsNone(d.cc_signage_point) /\ IsOverflowBlock(Get(d.signage_point_index))
                /\ IsNone(prev_cc_sub_slot_hash)
             THEN Raise("AssertionError")
        ELSE IF ~IsNone(d.cc_signage_point) /\ ~Verify(d.cc_signage_point) THEN RetNone
        ELSE IF ~Truthy(d.ip_iters) THEN Raise("AssertionError")
        ELSE IF IsNone(d.cc_infusion_point) THEN Raise("AssertionError")
        ELSE IF ~IsEndOfSlot(prev_ssd)
                /\ (IsNone(prev_ssd.cc_ip_vdf_output) \/ ~Truthy(d.total_iters)
                    \/ ~Truthy(prev_ssd.total_iters))
             THEN Raise("AssertionError")
        ELSE IF IsNone(d.cc_ip_vdf_output) THEN Raise("AssertionError")
        ELSE IF ~Verify(d.cc_infusion_point) THEN RetNone
        ELSE IF IsNone(d.icc_infusion_point) THEN Ok
        ELSE IF ~IsEndOfSlot(prev_ssd) /\ (IsNone(d.total_iters) \/ IsNone(prev_ssd.total_iters))
             THEN Raise("AssertionError")
        ELSE IF ~IsEndOfSlot(prev_ssd) /\ ~IsChallenge(prev_ssd)
                /\ IsNone(prev_ssd.icc_ip_vdf_output)
             THEN Raise("AssertionError")
        ELSE IF IsNone(d.icc_ip_vdf_output) THEN Raise("AssertionError")
        ELSE IF ~Verify(d.icc_infusion_point) THEN RetNone
        ELSE Ok

\* lines 1058-1113
HandleOverflows(sub_slots, i, first_block) ==
    LET ssd == sub_slots[i]
        chained == ~first_block /\ ~IsEndOfSlot(sub_slots[i - 1])
    IN  IF ~first_block /\ IsNone(ssd.cc_infusion_point) THEN Raise("AssertionError")
        ELSE IF chained /\ (IsNone(sub_slots[i - 1].cc_ip_vdf_output)
                            \/ IsNone(sub_slots[i - 1].total_iters)
                            \/ IsNone(ssd.total_iters))
             THEN Raise("AssertionError")
        ELSE IF IsNone(ssd.cc_ip_vdf_output) \/ IsNone(ssd.cc_infusion_point)
             THEN Raise("AssertionError")
        ELSE IF ~chained /\ IsNone(ssd.ip_iters) THEN Raise("AssertionError")
        ELSE IF ~Verify(ssd.cc_infusion_point) THEN RetNone
        ELSE IF IsNone(ssd.icc_infusion_point) THEN Ok
        ELSE IF IsNone(ssd.icc_ip_vdf_output) THEN Raise("AssertionError")
        ELSE IF ~Verify(ssd.icc_infusion_point) THEN RetNone
        ELSE Ok

\* lines 1029-1041: the iterations of the infused challenge chain at a slot end
RECURSIVE IccItersBack(_, _, _)
IccItersBack(sub_slots, j, curr_ssi) ==
    IF j < 1 THEN curr_ssi
    ELSE IF IsChallenge(sub_slots[j])
         THEN IF Truthy(sub_slots[j].ip_iters) THEN curr_ssi - Get(sub_slots[j].ip_iters)
              ELSE -1
    ELSE IF IsEndOfSlot(sub_slots[j]) THEN curr_ssi
    ELSE IccItersBack(sub_slots, j - 1, curr_ssi)

\* A field that carries the icc hash whatever the deficit
IccHashAlways(prev_deficit, icc_hash) == icc_hash

\* line 1048: icc_hash if prev_deficit == 0 else None
IccHashField(prev_deficit, icc_hash) == IF prev_deficit = 0 THEN icc_hash ELSE NoneV

\* Summary fields that are never filled
SesFieldsEmpty(ses) == <<NoneV, NoneV, NoneV>>

\* lines 1049-1051: subepoch_summary_hash, new_sub_slot_iters, new_difficulty
SesFields(ses) ==
    IF IsNone(ses) THEN <<NoneV, NoneV, NoneV>>
    ELSE <<Some(SesHash(Get(ses))), Get(ses).new_sub_slot_iters, Get(ses).new_difficulty>>

\* lines 1017-1055; i is the 1-based position, ses the Optional summary passed
\* for the first entry; an icc_iters of -1 stands for the failed assert of
\* line 1038
GetCcSubSlot(challenge, icc_challenge, curr_ssi, ses, segment, i, prev_deficit, prev_challenge_ip_iters) ==
    LET ssd == segment.sub_slot_data[i]
        icc_iters ==
            IF i = 1
            THEN IF IsNone(segment.cc_slot_end_info) THEN curr_ssi - prev_challenge_ip_iters
                 ELSE IF ~IsNone(segment.prev_icc_ip_iters)
                      THEN curr_ssi - Get(segment.prev_icc_ip_iters)
                 ELSE curr_ssi
            ELSE IccItersBack(segment.sub_slot_data, i - 1, curr_ssi)
        icc_hash == IF ~IsNone(ssd.icc_slot_end_output)
                    THEN Some(StdHash("vdf", <<icc_challenge, icc_iters, ssd.icc_slot_end_output>>))
                    ELSE icc_challenge
    IN  IF ~IsNone(ssd.icc_slot_end_output) /\ icc_iters = -1 THEN Raise("AssertionError")
        ELSE IF ~IsNone(ssd.icc_slot_end_output) /\ IsNone(icc_challenge)
             THEN Raise("AssertionError")
        ELSE IF IsNone(ssd.cc_slot_end_output) THEN Raise("AssertionError")
        ELSE [kind |-> "ok",
              cc |-> StdHash("ccss", <<challenge, curr_ssi, ssd.cc_slot_end_output,
                                       IccHashField(prev_deficit, icc_hash)>>
                                     \o SesFields(ses)),
              icc |-> icc_hash]

\* lines 914-1014, the loop over the entries from 1-based position i on; st
\* holds the local variables of _validate_segment, and the record of the
\* challenges used at each challenge entry (blocks) and of the sub slots
\* derived at each end-of-slot entry (ends)
RECURSIVE SegmentLoop(_, _, _, _, _)
SegmentLoop(segment, ses, sampled, i, st) ==
    LET sub_slot_data == segment.sub_slot_data IN
    IF i > Len(sub_slot_data)
    THEN IF IsNone(st.icc) THEN Raise("AssertionError")
         ELSE [kind |-> "ok", ip_iters |-> st.pip, slot_iters |-> st.slot_iters,
               slots |-> st.slots, cc |-> st.cc, icc |-> st.icc,
               slot_after |-> st.slot_after, blocks |-> st.blocks, ends |-> st.ends]
    ELSE
    LET ssd == sub_slot_data[i]
        chal == IsChallenge(ssd)
        eos == IsEndOfSlot(ssd)
        pip == IF chal THEN Get(ssd.ip_iters) ELSE st.pip
        deficit0 == IF chal THEN MIN_BLOCKS_PER_CHALLENGE_BLOCK - 1 ELSE st.deficit
        deficit == IF st.after /\ ~eos THEN deficit0 - 1 ELSE deficit0
        r == IF chal THEN ValidateChallengeSubSlotData(sub_slot_data, i, st.cc, st.prev_cc,
                                                       sampled)
             ELSE IF sampled /\ st.after
                  THEN IF IsNone(st.icc) THEN Raise("AssertionError")
                       ELSE IF eos THEN ValidateEos(sub_slot_data, i)
                       ELSE ValidateSubSlotData(sub_slot_data, i, st.prev_cc)
             ELSE IF ~st.after /\ ~eos
                  THEN IF IsNone(st.icc) THEN Raise("AssertionError")
                       ELSE HandleOverflows(sub_slot_data, i, st.first_block)
             ELSE Ok
        icc == IF chal THEN Some(r.hash) ELSE st.icc
        after == st.after \/ chal
        g == GetCcSubSlot(st.cc, icc, st.curr_ssi, IF i = 1 THEN ses ELSE NoneV,
                          segment, i, deficit, pip)
    IN  IF chal /\ ~Truthy(ssd.ip_iters) THEN Raise("AssertionError")
        ELSE IF r.kind # "ok" THEN r
        ELSE IF ~eos
             THEN SegmentLoop(segment, ses, sampled, i + 1,
                      [st EXCEPT !.pip = pip, !.deficit = deficit, !.icc = icc,
                                 !.after = after, !.first_block = FALSE,
                                 !.blocks = IF chal
                                            THEN Append(@, [at |-> i, cc |-> st.cc,
                                                            sp |-> r.sp_challenge,
                                                            ip |-> r.ip_challenge,
                                                            pospace |-> r.pospace_challenge])
                                            ELSE @])
        ELSE IF g.kind # "ok" THEN g
        ELSE SegmentLoop(segment, ses, sampled, i + 1,
                 [st EXCEPT !.pip = pip, !.deficit = deficit, !.after = after,
                            !.slot_after = st.slot_after \/ after,
                            !.prev_cc = Some(st.cc), !.cc = g.cc, !.icc = g.icc,
                            !.ends = Append(@, [at |-> i, cc |-> g.cc, icc |-> g.icc]),
                            !.slot_iters = st.slot_iters + st.curr_ssi,
                            !.slots = st.slots + 1,
                            !.curr_ssi = IF ~IsNone(ses) /\ ~IsNone(Get(ses).new_sub_slot_iters)
                                         THEN Get(Get(ses).new_sub_slot_iters)
                                         ELSE st.curr_ssi])

\* lines 914-1014
ValidateSegment(segment, curr_ssi, ses, sampled, cc_challenge, icc_challenge, prev_challenge_ip_iters) ==
    SegmentLoop(segment, ses, sampled, 1,
        [cc |-> cc_challenge, prev_cc |-> NoneV, icc |-> icc_challenge,
         pip |-> prev_challenge_ip_iters, deficit |-> 0, after |-> FALSE,
         slot_after |-> FALSE, first_block |-> TRUE, slot_iters |-> 0, slots |-> 0,
         curr_ssi |-> curr_ssi, blocks |-> <<>>, ends |-> <<>>])

\* lines 1554-1566: the sub slot iterations in force before sub-epoch idx
RECURSIVE SsiBack(_, _)
SsiBack(summaries, j) ==
    IF j < 1 THEN SUB_SLOT_ITERS_STARTING
    ELSE IF ~IsNone(summaries[j].new_sub_slot_iters)
         THEN Get(summaries[j].new_sub_slot_iters)
    ELSE SsiBack(summaries, j - 1)

GetCurrSsi(idx, summaries) ==
    IF idx = 0 THEN SUB_SLOT_ITERS_STARTING
    ELSE SsiBack(summaries, Min(idx - 1, Len(summaries)))

\* lines 1488-1492: 1-based position of the first entry that is a block, or 0
RECURSIVE FirstBlockIdx(_, _)
FirstBlockIdx(slots, i) ==
    IF i > Len(slots) THEN 0
    ELSE IF ~IsEndOfSlot(slots[i]) THEN i
    ELSE FirstBlockIdx(slots, i + 1)

\* lines 1515-1523: walking back from position j, the position of the
\* slots_n-th end of slot, or 0 when there are not enough
RECURSIVE ChallengeSlotIdx(_, _, _)
ChallengeSlotIdx(slots, j, slots_n) ==
    IF j < 1 THEN 0
    ELSE IF IsEndOfSlot(slots[j])
         THEN IF slots_n = 1 THEN j ELSE ChallengeSlotIdx(slots, j - 1, slots_n - 1)
    ELSE ChallengeSlotIdx(slots, j - 1, slots_n)

\* lines 1479-1551
GetRcSubSlotHash(segment, summaries, prev_ssi) ==
    LET slots == segment.sub_slot_data
        ses == summaries[segment.sub_epoch_n]
        f == FirstBlockIdx(slots, 1)
        overflow == IsOverflowBlock(Get(slots[f].signage_point_index))
        two == overflow /\ f >= 3 /\ ~IsEndOfSlot(slots[f - 2])
        drop == overflow /\ f >= 3 /\ IsEndOfSlot(slots[f - 2]) /\ IsEndOfSlot(slots[f - 1])
        c == ChallengeSlotIdx(slots, f - 1, IF two THEN 2 ELSE 1)
        icc_iters == IF ~IsNone(segment.prev_icc_ip_iters)
                     THEN prev_ssi - Get(segment.prev_icc_ip_iters) ELSE prev_ssi
        icc_info == StdHash("vdf", <<segment.icc_sub_slot_hash, icc_iters,
                                     slots[c].icc_slot_end_output>>)
        cc_sub_slot == StdHash("ccss", <<segment.cc_slot_end_info, icc_info,
                           IF drop THEN NoneV ELSE Some(SesHash(ses)),
                           IF drop THEN NoneV ELSE ses.new_sub_slot_iters,
                           IF drop THEN NoneV ELSE ses.new_difficulty>>)
    IN  IF segment.sub_epoch_n - 1 >= Len(summaries) THEN Raise("IndexError")
        ELSE IF f = 0 THEN RetNone
        ELSE IF IsNone(slots[f].signage_point_index) THEN Raise("AssertionError")
        ELSE IF c = 0 THEN RetNone
        ELSE IF IsNone(segment.cc_slot_end_info) \/ IsNone(segment.rc_slot_end_info)
             THEN Raise("AssertionError")
        ELSE IF IsNone(slots[c].icc_slot_end_output) \/ IsNone(segment.icc_sub_slot_hash)
             THEN Raise("AssertionError")
        ELSE [kind |-> "ok",
              hash |-> StdHash("rcss", <<segment.rc_slot_end_info, cc_sub_slot, icc_info,
                                         MIN_BLOCKS_PER_CHALLENGE_BLOCK>>)]

\* lines 876-909, the loop over the segments of one group from 0-based idx
\* on; t holds the local variables of validate_sub_epoch.  The two float
\* divisions of lines 905-907 raise ZeroDivisionError on a zero divisor; the
\* comparison with the threshold is made in integers.
\* A next segment that always gets the challenge block's ip_iters
KeepIpIters(slot_after_challenge, ip_iters) == ip_iters

\* line 889: uint64(0) if slot_after_challenge else ip_iters
PrevChallengeIpIters(slot_after_challenge, ip_iters) ==
    IF slot_after_challenge THEN 0 ELSE ip_iters

RECURSIVE SubEpochLoop(_, _, _, _, _)
SubEpochLoop(segments, sampled_seg_index, prev_ses, idx, t) ==
    IF idx >= Len(segments) THEN [kind |-> "ok", value |-> TRUE]
    ELSE
    LET res == ValidateSegment(segments[idx + 1], t.curr_ssi,
                               IF idx = 0 THEN prev_ses ELSE NoneV,
                               sampled_seg_index = idx, t.cc, t.icc,
                               PrevChallengeIpIters(t.slot_after, t.ip_iters))
        total_blocks == t.total_blocks + 1
        total_slot_iters == t.total_slot_iters + res.slot_iters
        total_slots == t.total_slots + res.slots
        total_ip_iters == t.total_ip_iters + res.ip_iters
    IN  IF res.kind = "None" THEN [kind |-> "ok", value |-> FALSE]
        ELSE IF res.kind # "ok" THEN res
        ELSE IF total_slots = 0 THEN Raise("ZeroDivisionError")
        ELSE IF total_ip_iters = 0 THEN Raise("ZeroDivisionError")
        ELSE IF total_slot_iters * total_blocks
                    < WEIGHT_PROOF_THRESHOLD * total_ip_iters * total_slots
             THEN [kind |-> "ok", value |-> FALSE]
        ELSE SubEpochLoop(segments, sampled_seg_index, prev_ses, idx + 1,
                 [t EXCEPT !.ip_iters = res.ip_iters, !.cc = res.cc, !.icc = res.icc,
                           !.slot_after = res.slot_after,
                           !.curr_ssi = IF ~IsNone(prev_ses)
                                           /\ ~IsNone(Get(prev_ses).new_sub_slot_iters)
                                        THEN Get(Get(prev_ses).new_sub_slot_iters)
                                        ELSE t.curr_ssi,
                           !.total_blocks = total_blocks,
                           !.total_slot_iters = total_slot_iters,
                           !.total_slots = total_slots,
                           !.total_ip_iters = total_ip_iters])

\* lines 856-870: rc_sub_slot_hash, cc_sub_slot_hash and icc_sub_slot_hash
\* before the first segment; kind "None" when __get_rc_sub_slot_hash returns
\* None, an exception when it raises
InitialHashes(sub_epoch_n, segments, summaries, curr_ssi) ==
    IF sub_epoch_n = 0
    THEN [kind |-> "ok", rc |-> GENESIS_CHALLENGE, cc |-> GENESIS_CHALLENGE, icc |-> NoneV]
    ELSE LET rc == GetRcSubSlotHash(segments[1], summaries, curr_ssi)
         IN  IF rc.kind # "ok" THEN rc
             ELSE [kind |-> "ok", rc |-> rc.hash, cc |-> Get(segments[1].cc_slot_end_info),
                   icc |-> segments[1].icc_sub_slot_hash]

\* A comparison that lets every reward chain hash through
AnyRewardChainHash(ses, rc_sub_slot_hash) == TRUE

\* line 871: summaries[sub_epoch_n].reward_chain_hash == rc_sub_slot_hash
RewardChainHashOk(ses, rc_sub_slot_hash) == ses.reward_chain_hash = rc_sub_slot_hash

\* lines 847-911: the worker task of one group.  The result is
\* [kind |-> "ok", value |-> True or False] or the exception raised.
ValidateSubEpoch(sampled_seg_index, segments, sub_epoch_n, summaries) ==
    LET curr_ssi == GetCurrSsi(sub_epoch_n, summaries)
        h == InitialHashes(sub_epoch_n, segments, summaries, curr_ssi)
        prev_ses == IF sub_epoch_n = 0 THEN NoneV ELSE Some(summaries[sub_epoch_n])
    IN  IF sub_epoch_n # 0 /\ sub_epoch_n - 1 >= Len(summaries) THEN Raise("IndexError")
        ELSE IF h.kind = "None" THEN [kind |-> "ok", value |-> FALSE]
        ELSE IF h.kind # "ok" THEN h
        ELSE IF sub_epoch_n >= Len(summaries) THEN Raise("IndexError")
        ELSE IF ~RewardChainHashOk(summaries[sub_epoch_n + 1], h.rc)
             THEN [kind |-> "ok", value |-> FALSE]
        ELSE SubEpochLoop(segments, sampled_seg_index, prev_ses, 0,
                 [curr_ssi |-> curr_ssi, cc |-> h.cc, icc |-> h.icc, ip_iters |-> 0,
                  slot_after |-> FALSE, total_blocks |-> 0, total_slot_iters |-> 0,
                  total_slots |-> 0, total_ip_iters |-> 0])

\* lines 1626-1636: the groups in insertion order, each [n, segments]
RECURSIVE MapLoop(_, _, _, _)
MapLoop(sub_epoch_segments, i, curr_sub_epoch_n, groups) ==
    IF i > Len(sub_epoch_segments) THEN groups
    ELSE LET segment == sub_epoch_segments[i] IN
         IF curr_sub_epoch_n < segment.sub_epoch_n
         THEN MapLoop(sub_epoch_segments, i + 1, segment.sub_epoch_n,
                      Append(groups, [n |-> segment.sub_epoch_n, segments |-> <<segment>>]))
         ELSE MapLoop(sub_epoch_segments, i + 1, curr_sub_epoch_n,
                      [groups EXCEPT ![Len(groups)].segments = Append(@, segment)])

MapSegmentsBySubEpoch(sub_epoch_segments) == MapLoop(sub_epoch_segments, 1, -1, <<>>)

\* lines 1609-1614: the required sub-epochs, scanning idx upwards from the
\* given one with the cap applied after each insertion
RECURSIVE RequiredLoop(_, _, _, _)
RequiredLoop(sub_epoch_weight_list, weight_to_check, idx, sampled_sub_epochs) ==
    IF idx >= Len(sub_epoch_weight_list) THEN sampled_sub_epochs
    ELSE IF SampleSubEpoch(sub_epoch_weight_list[idx], sub_epoch_weight_list[idx + 1],
                           weight_to_check)
         THEN IF Cardinality(sampled_sub_epochs \cup {idx - 1}) = MAX_SAMPLES
              THEN sampled_sub_epochs \cup {idx - 1}
              ELSE RequiredLoop(sub_epoch_weight_list, weight_to_check, idx + 1,
                                sampled_sub_epochs \cup {idx - 1})
    ELSE RequiredLoop(sub_epoch_weight_list, weight_to_check, idx + 1, sampled_sub_epochs)

\* A walk that strikes a required index wherever it appears
CoverageAnyOrder(sub_epoch_ns, i, curr_sub_epoch_n, sampled_sub_epochs) ==
    sampled_sub_epochs \ {sub_epoch_ns[j] : j \in i..Len(sub_epoch_ns)}

\* lines 1615-1620: what is left of the required set after the walk over the
\* proof's segments
RECURSIVE CoverageLoop(_, _, _, _)
CoverageLoop(sub_epoch_ns, i, curr_sub_epoch_n, sampled_sub_epochs) ==
    IF i > Len(sub_epoch_ns) THEN sampled_sub_epochs
    ELSE CoverageLoop(sub_epoch_ns, i + 1, sub_epoch_ns[i],
             IF curr_sub_epoch_n < sub_epoch_ns[i]
             THEN sampled_sub_epochs \ {sub_epoch_ns[i]}
             ELSE sampled_sub_epochs)

\* lines 1601-1623; sub_epoch_ns is the sub_epoch_n of each segment of the
\* proof in order.  required is the set of line 1614, value the verdict.
ValidateSubEpochSampling(seed, sub_epoch_weight_list, sub_epoch_ns) ==
    LET n == Len(sub_epoch_weight_list)
        total_weight == sub_epoch_weight_list[n]
        last_l_weight == sub_epoch_weight_list[n] - sub_epoch_weight_list[n - 2]
        wtc == GetWeightsForSampling(seed, total_weight, last_l_weight)
        required == RequiredLoop(sub_epoch_weight_list, wtc.w, 1, {})
    IN  IF n < 3 THEN [kind |-> "IndexError", value |-> FALSE, required |-> {}, pos |-> 0]
        ELSE IF wtc.kind = "None"
             THEN [kind |-> "ok", value |-> FALSE, required |-> {}, pos |-> 0]
        ELSE IF wtc.kind # "ok"
             THEN [kind |-> wtc.kind, value |-> FALSE, required |-> {}, pos |-> 0]
        ELSE [kind |-> "ok",
              value |-> CoverageLoop(sub_epoch_ns, 1, -1, required) = {},
              required |-> required, pos |-> wtc.pos]

---------------------------------------------------------------------------
(* 5. Summary reconstruction (validator side)                              *)

\* lines 780-815, the loop from 0-based idx on; the result is
\* [summaries, total, list]
\* A contribution computed with the difficulty the summary itself announces
SubEpochWeightAnnounced(curr_difficulty, data, next_data) ==
    (IF IsNone(data.new_difficulty) THEN curr_difficulty ELSE Get(data.new_difficulty))
        * (SUB_EPOCH_BLOCKS + next_data.num_blocks_overflow - data.num_blocks_overflow)

\* lines 797, 801-803: the weight sub-epoch idx adds to total_weight
SubEpochWeight(curr_difficulty, data, next_data) ==
    curr_difficulty
        * (SUB_EPOCH_BLOCKS + next_data.num_blocks_overflow - data.num_blocks_overflow)

RECURSIVE MapSummariesLoop(_, _, _, _, _, _)
MapSummariesLoop(sub_epoch_data, idx, ses_hash, curr_difficulty, total_weight, acc) ==
    IF idx >= Len(sub_epoch_data)
    THEN [summaries |-> acc.summaries, total |-> total_weight,
          list |-> Append(acc.list, total_weight + curr_difficulty)]
    ELSE
    LET data == sub_epoch_data[idx + 1]
        ses == SubEpochSummary(ses_hash, data.reward_chain_hash, data.num_blocks_overflow,
                               data.new_difficulty, data.new_sub_slot_iters)
        more == idx < Len(sub_epoch_data) - 1
    IN  MapSummariesLoop(sub_epoch_data, idx + 1, SesHash(ses),
            IF ~IsNone(data.new_difficulty) THEN Get(data.new_difficulty)
            ELSE curr_difficulty,
            IF more
            THEN total_weight + SubEpochWeight(curr_difficulty, data, sub_epoch_data[idx + 2])
            ELSE total_weight,
            [summaries |-> Append(acc.summaries, ses),
             list |-> IF more THEN Append(acc.list, total_weight + curr_difficulty)
                      ELSE acc.list])

MapSubEpochSummaries(sub_epoch_data) ==
    MapSummariesLoop(sub_epoch_data, 0, GENESIS_CHALLENGE, DIFFICULTY_STARTING, 0,
                     [summaries |-> <<>>, list |-> <<>>])

\* A header block of the recent chain: height, weight, the sub-epoch summary
\* hash of its finished sub slots (Optional) and the verdict of the external
\* header validation on it
Header(height, weight, ses_hash, valid) ==
    [height |-> height, weight |-> weight, ses_hash |-> ses_hash, valid |-> valid]

\* lines 1576-1586: first position at or after idx whose block carries a
\* summary hash, or 0
RECURSIVE FirstSesFrom(_, _)
FirstSesFrom(recent_reward_chain, idx) ==
    IF idx > Len(recent_reward_chain) THEN 0
    ELSE IF ~IsNone(recent_reward_chain[idx].ses_hash) THEN idx
    ELSE FirstSesFrom(recent_reward_chain, idx + 1)

\* lines 1569-1587, scanning the recent chain backwards from position p
RECURSIVE LastSesLoop(_, _)
LastSesLoop(recent_reward_chain, p) ==
    IF p < 1 THEN [hash |-> NoneV, height |-> 0, weight |-> 0]
    ELSE LET q == FirstSesFrom(recent_reward_chain, p) IN
         IF recent_reward_chain[p].height % SUB_EPOCH_BLOCKS = 0 /\ q # 0
         THEN [hash |-> recent_reward_chain[q].ses_hash,
               height |-> recent_reward_chain[q].height,
               weight |-> recent_reward_chain[q].weight]
         ELSE LastSesLoop(recent_reward_chain, p - 1)

GetLastSes(recent_reward_chain) == LastSesLoop(recent_reward_chain, Len(recent_reward_chain))

\* _validate_summaries_weight (weight_proof_common, not among the source
\* files), from the specification: the aggregate of the summaries must equal
\* the weight of the recent-chain anchor, the block that ends the sub-epoch
\* before the last summary
ValidateSummariesWeight(total, summaries, recent_chain_data) ==
    LET ses_end_height == (Len(summaries) - 1) * SUB_EPOCH_BLOCKS
                              + summaries[Len(summaries)].num_blocks_overflow - 1
    IN  \E i \in 1..Len(recent_chain_data) :
            /\ recent_chain_data[i].height = ses_end_height
            /\ recent_chain_data[i].weight = total

\* _validate_recent_blocks (weight_proof_common, not among the source files),
\* from the specification: the verdict on the recent header blocks
ValidateRecentBlocks(recent_chain_data) ==
    \A i \in 1..Len(recent_chain_data) : recent_chain_data[i].valid

\* WeightProofV2(sub_epochs, sub_epoch_segments, recent_chain_data)
WeightProofV2(sub_epochs, sub_epoch_segments, recent_chain_data) ==
    [sub_epochs |-> sub_epochs, sub_epoch_segments |-> sub_epoch_segments,
     recent_chain_data |-> recent_chain_data]

\* A validation that accepts the summaries without comparing the last hash
ValidateSummariesUnlinked(weight_proof) ==
    LET last == GetLastSes(weight_proof.recent_chain_data)
        m == MapSubEpochSummaries(weight_proof.sub_epochs)
    IN  IF IsNone(last.hash) THEN [kind |-> "None", summaries |-> <<>>, list |-> <<>>]
        ELSE IF ~ValidateSummariesWeight(m.total, m.summaries, weight_proof.recent_chain_data)
             THEN [kind |-> "None", summaries |-> <<>>, list |-> <<>>]
        ELSE [kind |-> "ok", summaries |-> m.summaries,
              list |-> Append(m.list, last.weight)]

\* lines 747-777; kind "None" stands for the (None, None) result
ValidateSubEpochSummaries(weight_proof) ==
    LET last == GetLastSes(weight_proof.recent_chain_data)
        m == MapSubEpochSummaries(weight_proof.sub_epochs)
    IN  IF IsNone(last.hash) THEN [kind |-> "None", summaries |-> <<>>, list |-> <<>>]
        ELSE IF ~ValidateSummariesWeight(m.total, m.summaries, weight_proof.recent_chain_data)
             THEN [kind |-> "None", summaries |-> <<>>, list |-> <<>>]
        ELSE IF SesHash(m.summaries[Len(m.summaries)]) # Get(last.hash)
             THEN [kind |-> "None", summaries |-> <<>>, list |-> <<>>]
        ELSE [kind |-> "ok", summaries |-> m.summaries,
              list |-> Append(m.list, last.weight)]

---------------------------------------------------------------------------
(* 6. The local chain (self.blockchain)                                    *)
(* A chain ch is [n, ov, nd, g_eos, nseg, peak]: n summaries; summary j    *)
(* (0-based) is included in the block at height (j+1)*SUB_EPOCH_BLOCKS +   *)
(* ov[j+1]; nd[j+1] is its Optional new difficulty, which applies from     *)
(* that block on; nseg[j+1] is the number of challenge segments of         *)
(* sub-epoch j; g_eos says whether the first segment of the chain contains *)
(* an end of slot; peak is the height of the peak.                         *)

\* blockchain.get_ses_heights() (lines 137, 176, 257), 0-based j
ChainSesHeight(ch, j) == (j + 1) * SUB_EPOCH_BLOCKS + ch.ov[j + 1]

GetSesHeights(ch) == [i \in 1..ch.n |-> ChainSesHeight(ch, i - 1)]

\* difficulty of the block at height h: the new difficulty of the last
\* summary included at or below h, scanning summaries j, j-1, ..
RECURSIVE DifficultyAt(_, _, _)
DifficultyAt(ch, h, j) ==
    IF j < 0 THEN DIFFICULTY_STARTING
    ELSE IF ChainSesHeight(ch, j) <= h /\ ~IsNone(ch.nd[j + 1]) THEN Get(ch.nd[j + 1])
    ELSE DifficultyAt(ch, h, j - 1)

\* BlockRecord.weight of the block at height h (lines 183, 216)
RECURSIVE ChainWeight(_, _)
ChainWeight(ch, h) ==
    IF h = 0 THEN DifficultyAt(ch, 0, ch.n - 1)
    ELSE ChainWeight(ch, h - 1) + DifficultyAt(ch, h, ch.n - 1)

\* _create_challenge_segment (lines 391-457) for the k-th challenge block
\* (0-based) of sub-epoch sub_epoch_n: the slot ends and blocks before the
\* challenge block, the challenge block, the blocks of its challenge slot
\* and the slot ends met on the way.  The first challenge block of a later
\* sub-epoch follows the slot end that closes the previous sub-epoch.  The
\* four boundary fields are set at lines 423-456.
CreateChallengeSegment(ch, sub_epoch_n, k, first_segment_in_sub_epoch) ==
    LET chal == BlockSsd(TRUE, "ok", <<sub_epoch_n, k, 0>>, FALSE, 2, 10)
        blk == BlockSsd(FALSE, "ok", <<sub_epoch_n, k, 1>>, TRUE, 3, 12)
        eos == EosSsd("ok", <<sub_epoch_n, k, 2>>, TRUE)
        first == EosSsd("ok", <<sub_epoch_n, k, 3>>, TRUE)
        sub_slots == IF k = 0 /\ sub_epoch_n > 0 THEN <<first, chal, blk, eos>>
                     ELSE IF k = 0 /\ ~ch.g_eos THEN <<chal, blk>>
                     ELSE <<chal, blk, eos>>
    IN  IF first_segment_in_sub_epoch /\ sub_epoch_n # 0
        THEN Segment(sub_epoch_n, sub_slots, Some(<<"rc_info", sub_epoch_n>>),
                     Some(<<"cc_info", sub_epoch_n>>), Some(<<"icc_hash", sub_epoch_n>>),
                     Some(2))
        ELSE Segment(sub_epoch_n, sub_slots, NoneV, NoneV, NoneV, NoneV)

\* A flag that stays as it was after a segment is appended
StillFirst(first) == first

\* line 382: first = False
FirstAfterSegment(first) == FALSE

\* lines 368-388, the loop from the idx-th challenge block (0-based) of the
\* sub-epoch on
RECURSIVE SegmentsLoop(_, _, _, _)
SegmentsLoop(ch, sub_epoch_n, idx, first) ==
    IF idx >= ch.nseg[sub_epoch_n + 1] THEN <<>>
    ELSE <<CreateChallengeSegment(ch, sub_epoch_n, idx, first)>>
             \o SegmentsLoop(ch, sub_epoch_n, idx + 1, FirstAfterSegment(first))

\* __create_sub_epoch_segments (lines 354-389)
CreateSubEpochSegments(ch, sub_epoch_n) == SegmentsLoop(ch, sub_epoch_n, 0, TRUE)

\* blockchain.get_sub_epoch_challenge_segments_v2 (line 218): the segments of
\* sub-epoch j as __create_sub_epoch_segments leaves them
ChainSegments(ch, j) == CreateSubEpochSegments(ch, j)

ChainSegment(ch, j, k) == ChainSegments(ch, j)[k + 1]

\* blockchain.get_ses (lines 140, 159): summaries 0 .. n-1 in order.  The
\* first summary carries the genesis challenge twice; a later one carries
\* the hash of its predecessor and the reward chain hash of the slot that
\* closes the previous sub-epoch, and the overflow of the block that
\* included its predecessor.
RECURSIVE ChainSummariesUpTo(_, _)
ChainSummariesUpTo(ch, n) ==
    IF n = 0 THEN <<>>
    ELSE LET prev == ChainSummariesUpTo(ch, n - 1)
             j == n - 1
         IN  IF j = 0
             THEN <<SubEpochSummary(GENESIS_CHALLENGE, GENESIS_CHALLENGE, 0, ch.nd[1], NoneV)>>
             ELSE Append(prev,
                      SubEpochSummary(SesHash(prev[j]),
                          GetRcSubSlotHash(ChainSegment(ch, j, 0), prev,
                                           SUB_SLOT_ITERS_STARTING).hash,
                          ch.ov[j], ch.nd[j + 1], NoneV))

ChainSummaries(ch) == ChainSummariesUpTo(ch, ch.n)

\* blockchain.get_header_blocks_in_range (line 267): the header at height h
ChainHeader(ch, h) ==
    LET js == {j \in 0..(ch.n - 1) : ChainSesHeight(ch, j) = h}
    IN  Header(h, ChainWeight(ch, h),
               IF js = {} THEN NoneV
               ELSE Some(SesHash(ChainSummaries(ch)[(CHOOSE j \in js : TRUE) + 1])),
               TRUE)

---------------------------------------------------------------------------
(* 7. Proof construction (builder side)                                    *)

\* lines 154-162
RECURSIVE SubEpochDataLoop(_, _, _)
SubEpochDataLoop(ch, tip_height, j) ==
    IF j >= ch.n \/ ChainSesHeight(ch, j) > tip_height THEN <<>>
    ELSE <<CreateSubEpochData(ChainSummaries(ch)[j + 1])>>
             \o SubEpochDataLoop(ch, tip_height, j + 1)

GetSubEpochData(ch, tip_height) == SubEpochDataLoop(ch, tip_height, 0)

\* lines 239-253, scanning reversed(summary_heights) from 0-based idx on; the
\* result is the pair of 0-based positions in summary_heights, or None
RECURSIVE LastLLoop(_, _, _)
LastLLoop(summary_heights, peak, idx) ==
    LET summaries_n == Len(summary_heights) IN
    IF idx >= summaries_n THEN NoneV
    ELSE IF summary_heights[summaries_n - idx] <= peak
         THEN IF summaries_n - idx < 3 THEN NoneV
              ELSE Some([last |-> summaries_n - idx - 1, prev_prev |-> summaries_n - idx - 3])
    ELSE LastLLoop(summary_heights, peak, idx + 1)

GetLastLWeight(summary_heights, peak) == LastLLoop(summary_heights, peak, 0)

\* lines 257-265: min_height, one block below the second summary block at or
\* below the tip, 0 when there are fewer than two; headers and block records
\* are fetched for min_height .. tip_height
RecentChainMin(ch, tip_height) ==
    LET below == {j \in 0..(ch.n - 1) : ChainSesHeight(ch, j) <= tip_height}
        second == {j \in below : Cardinality({i \in below : i > j}) = 1}
    IN  IF second = {} THEN 0
        ELSE ChainSesHeight(ch, CHOOSE j \in second : TRUE) - 1

\* lines 272-284: the walk back from curr_height, each header inserted at the
\* front, until two summary blocks were seen or height 0 is reached
RECURSIVE RecentChainLoop(_, _, _, _)
RecentChainLoop(ch, curr_height, ses_count, recent_chain) ==
    IF ses_count >= 2 \/ curr_height = 0
    THEN [curr_height |-> curr_height, recent_chain |-> recent_chain]
    ELSE LET header_block == ChainHeader(ch, curr_height)
         IN  RecentChainLoop(ch, curr_height - 1,
                 IF ~IsNone(header_block.ses_hash) THEN ses_count + 1 ELSE ses_count,
                 <<header_block>> \o recent_chain)

\* The headers from the second summary block at or below the tip up to the
\* tip, and no block before it
RecentChainFromSecond(ch, tip_height) ==
    LET min_height == RecentChainMin(ch, tip_height) + 1
    IN  [i \in 1..(tip_height - min_height + 1) |-> ChainHeader(ch, min_height + i - 1)]

\* _get_recent_chain (lines 255-295): the walk, then the header at the height
\* the walk stopped at is inserted at the front (lines 286-287)
GetRecentChain(ch, tip_height) ==
    LET w == RecentChainLoop(ch, tip_height, 0, <<>>)
    IN  <<ChainHeader(ch, w.curr_height)>> \o w.recent_chain

\* A cap test that lets one more sub-epoch through
CapReachedLate(sample_n) == sample_n > MAX_SAMPLES

\* line 206: the cap test made before a sub-epoch is sampled
CapReached(sample_n) == sample_n >= MAX_SAMPLES

\* lines 200-232, the loop from 0-based sub_epoch_n on; b holds sample_n, the
\* position of rng, the segments collected and the sub-epochs sampled
RECURSIVE SampleLoop(_, _, _, _, _, _, _)
SampleLoop(ch, tip_height, seed, weight_to_check, sub_epoch_n, prev_weight, b) ==
    IF sub_epoch_n >= ch.n \/ ChainSesHeight(ch, sub_epoch_n) > tip_height THEN b
    ELSE IF CapReached(b.sample_n) THEN b
    ELSE
    LET ses_weight == ChainWeight(ch, ChainSesHeight(ch, sub_epoch_n))
        segments == ChainSegments(ch, sub_epoch_n)
        sampled_seg_index == Choice(seed, b.pos, Len(segments))
    IN  IF SampleSubEpoch(prev_weight, ses_weight, weight_to_check)
        THEN SampleLoop(ch, tip_height, seed, weight_to_check, sub_epoch_n + 1, ses_weight,
                 [sample_n |-> b.sample_n + 1, pos |-> b.pos + 1,
                  segments |-> b.segments \o CompressSegments(sampled_seg_index, segments),
                  sampled |-> b.sampled \cup {sub_epoch_n}])
        ELSE SampleLoop(ch, tip_height, seed, weight_to_check, sub_epoch_n + 1, ses_weight, b)

\* lines 164-237; tip_height is the height of the tip record.  The result is
\* [kind |-> "ok", wp, sampled] or kind "None" or the exception raised
CreateProofOfWeight(ch, tip_height, seed) ==
    LET summary_heights == GetSesHeights(ch)
        l == GetLastLWeight(summary_heights, tip_height)
        last_weight == ChainWeight(ch, summary_heights[Get(l).last + 1])
        prev_prev_weight == ChainWeight(ch, summary_heights[Get(l).prev_prev + 1])
        wtc == GetWeightsForSampling(seed, last_weight, last_weight - prev_prev_weight)
        b == SampleLoop(ch, tip_height, seed, wtc.w, 0, ChainWeight(ch, 0),
                        [sample_n |-> 0, pos |-> wtc.pos, segments |-> <<>>, sampled |-> {}])
    IN  IF IsNone(l) THEN [kind |-> "None"]
        ELSE IF wtc.kind # "ok" THEN [kind |-> wtc.kind]
        ELSE [kind |-> "ok",
              wp |-> WeightProofV2(GetSubEpochData(ch, tip_height), b.segments,
                                   GetRecentChain(ch, tip_height)),
              sampled |-> b.sampled]

---------------------------------------------------------------------------
(* 8. Inputs: chains                                                       *)

\* A chain with n summaries: overflow pattern a (every other summary block is
\* one block late when a = 1), a difficulty change to d carried by the second
\* summary when d is set, s shifting which sub-epochs have two segments
MakeChain(n, a, d, g_eos, s) ==
    [n |-> n,
     ov |-> [i \in 1..n |-> (i * a) % 2],
     nd |-> [i \in 1..n |-> IF i = 2 THEN d ELSE NoneV],
     g_eos |-> g_eos,
     nseg |-> [i \in 1..n |-> 1 + ((i + s) % 2)],
     peak |-> (n * SUB_EPOCH_BLOCKS) + ((n * a) % 2) + 1]

---------------------------------------------------------------------------
(* 9. Idle values of each part's variables                                 *)

Idle == [kind |-> "idle"]
Pending == [kind |-> "pending"]

ForkIdle == fk_in = Idle /\ fk_out = Idle
SamplingIdle == sm_in = Idle /\ sm_out = Idle
ValidateIdle ==
    /\ v_in = Idle /\ v_wp = Idle /\ v_pc = "idle" /\ v_sum = Idle /\ v_task = <<>>
    /\ v_recent = "idle" /\ v_done = <<>> /\ v_seen = 0 /\ v_ret = Idle
HandlerIdle ==
    /\ tip = NoneV /\ proof = NoneV /\ locked = FALSE /\ waiters = <<>>
    /\ pc = <<>> /\ arg = <<>> /\ exits = {} /\ returned = Idle
RecordsIdle == pf_in = Idle /\ pf_out = Idle

---------------------------------------------------------------------------
(* 10. SpecFork: get_fork_point on a local chain and a received list       *)

ForkInit ==
    /\ fk_in \in [local : ForkLocals, received : ForkReceived]
    /\ fk_out = Pending
    /\ SamplingIdle /\ ValidateIdle /\ HandlerIdle /\ RecordsIdle

\* lines 134-152
GetForkPointCall ==
    /\ fk_out = Pending
    /\ fk_out' = GetForkPoint(SesHeightsOf(Len(fk_in.local)), fk_in.local, fk_in.received)
    /\ UNCHANGED <<fk_in, svars, vvars, hvars, pvars>>

ForkNext == GetForkPointCall

SpecFork == ForkInit /\ [][ForkNext]_vars

\* Length of the matching prefix: the local summary exists, the received list
\* has an entry at the index, and the hashes are equal
RECURSIVE MatchingPrefix(_, _, _)
MatchingPrefix(local, received, m) ==
    IF m < Len(local) /\ m < Len(received) /\ ~IsNone(local[m + 1])
       /\ Get(local[m + 1]) = received[m + 1]
    THEN MatchingPrefix(local, received, m + 1)
    ELSE m

\* The local chain and the received list are the same chain
IdenticalChains ==
    /\ Len(fk_in.local) = Len(fk_in.received)
    /\ \A i \in 1..Len(fk_in.local) :
           ~IsNone(fk_in.local[i]) /\ Get(fk_in.local[i]) = fk_in.received[i]

\* C7: get_fork_point returns ses_heights[k - 2] when k > 2 and 0 otherwise,
\* k being the last (0-based) index of the matching prefix of the local and
\* received summaries
C7_ForkPointOfPrefix ==
    fk_out.kind \notin {"pending", "idle"} =>
        LET m == MatchingPrefix(fk_in.local, fk_in.received, 0)
            k == IF m = 0 THEN 0 ELSE m - 1
        IN  /\ fk_out.kind = "ok"
            /\ fk_out.height = IF k > 2 THEN SesHeightsOf(Len(fk_in.local))[(k - 2) + 1]
                               ELSE 0

\* C8 as stated: on identical chains get_fork_point returns the height of
\* the last sub-epoch summary
C8_IdenticalYieldsTip ==
    (fk_out.kind \notin {"pending", "idle"} /\ IdenticalChains /\ Len(fk_in.local) > 0) =>
        /\ fk_out.kind = "ok"
        /\ fk_out.height = SesHeightsOf(Len(fk_in.local))[Len(fk_in.local)]

\* C8 amended: on identical chains of n summaries get_fork_point returns the
\* height of the summary two before the last one, ses_heights[n - 3], when
\* n > 3, and 0 when n <= 3
C8_IdenticalYieldsBackoff ==
    (fk_out.kind \notin {"pending", "idle"} /\ IdenticalChains) =>
        /\ fk_out.kind = "ok"
        /\ fk_out.height = IF Len(fk_in.local) > 3
                           THEN SesHeightsOf(Len(fk_in.local))[Len(fk_in.local) - 2]
                           ELSE 0

\* Identical chains of at least four summaries, fork point computed
C8_Witness ==
    /\ fk_out.kind = "ok" /\ IdenticalChains /\ Len(fk_in.local) >= 4
    /\ fk_out.height > 0

---------------------------------------------------------------------------
(* 11. SpecSampling: the builder samples, the proof travels, the validator *)
(* replays the sampling                                                    *)

MaxNs == 3             \* most segments of a list substituted in flight

\* Chains that differ in what the sampling reads: length, heights, weights
SamplingChains ==
    {MakeChain(n, a, d, TRUE, 0) : n \in 3..MaxSubEpochs, a \in {0, 1},
                                   d \in {NoneV, Some(2)}}

\* lines 67-84 without the lock: the early returns, then the construction
GetProofOfWeight(ch, tip_height, seed) ==
    IF tip_height > ch.peak THEN [kind |-> "None"]
    ELSE IF tip_height < WEIGHT_PROOF_RECENT_BLOCKS THEN [kind |-> "None"]
    ELSE CreateProofOfWeight(ch, tip_height, seed)

\* sub_epoch_n of each segment of a proof, in order
SubEpochNs(sub_epoch_segments) ==
    [i \in 1..Len(sub_epoch_segments) |-> sub_epoch_segments[i].sub_epoch_n]

SamplingInit ==
    /\ sm_in \in UNION {{[ch |-> ch, tip |-> t, seed |-> sd] :
                             t \in {ch.peak, ChainSesHeight(ch, ch.n - 2)}, sd \in Seeds} :
                         ch \in SamplingChains}
    /\ sm_out = [stage |-> "start"]
    /\ ForkIdle /\ ValidateIdle /\ HandlerIdle /\ RecordsIdle

\* lines 164-237: the builder runs
SamplingBuild ==
    /\ sm_out.stage = "start"
    /\ LET r == GetProofOfWeight(sm_in.ch, sm_in.tip, sm_in.seed)
       IN  sm_out' = IF r.kind = "ok"
                     THEN [stage |-> "built", wp |-> r.wp, sampled |-> r.sampled]
                     ELSE [stage |-> "none"]
    /\ UNCHANGED <<sm_in, fvars, vvars, hvars, pvars>>

\* The proof reaches the validator as built
SamplingSend ==
    /\ sm_out.stage = "built"
    /\ sm_out' = [sm_out EXCEPT !.stage = "sent"] @@
                 [ns |-> SubEpochNs(sm_out.wp.sub_epoch_segments)]
    /\ UNCHANGED <<sm_in, fvars, vvars, hvars, pvars>>

\* The proof reaches the validator with another list of segments
SamplingSubstitute ==
    /\ sm_out.stage = "built"
    /\ \E ns \in SeqsOf(0..(sm_in.ch.n - 1), 0, MaxNs) :
          sm_out' = [sm_out EXCEPT !.stage = "sent"] @@ [ns |-> ns]
    /\ UNCHANGED <<sm_in, fvars, vvars, hvars, pvars>>

\* lines 105-112: the validator rebuilds the weight list and replays the
\* sampling
SamplingReplay ==
    /\ sm_out.stage = "sent"
    /\ LET v == ValidateSubEpochSummaries(sm_out.wp)
           r == ValidateSubEpochSampling(sm_in.seed, v.list, sm_out.ns)
       IN  sm_out' = IF v.kind = "ok"
                     THEN [sm_out EXCEPT !.stage = "replayed"] @@
                          [kind |-> r.kind, value |-> r.value, required |-> r.required,
                           list |-> v.list]
                     ELSE [sm_out EXCEPT !.stage = "rejected"]
    /\ UNCHANGED <<sm_in, fvars, vvars, hvars, pvars>>

\* lines 164-237: the builder runs again on the same chain and tip with
\* another seed
SamplingRebuild ==
    /\ sm_out.stage = "built"
    /\ \E sd \in Seeds \ {sm_in.seed} :
          sm_out' = [stage |-> "pair", wp |-> sm_out.wp, sampled |-> sm_out.sampled,
                     seed2 |-> sd,
                     second |-> GetProofOfWeight(sm_in.ch, sm_in.tip, sd)]
    /\ UNCHANGED <<sm_in, fvars, vvars, hvars, pvars>>

SamplingNext ==
    SamplingBuild \/ SamplingSend \/ SamplingSubstitute \/ SamplingReplay \/ SamplingRebuild

SpecSampling == SamplingInit /\ [][SamplingNext]_vars

\* The required index r is met by the walk of lines 1615-1620: it is the
\* sub_epoch_n of a segment that is first in the list or follows a segment
\* of a smaller sub_epoch_n
MetInOrder(ns, r) ==
    \E i \in 1..Len(ns) : ns[i] = r /\ (i = 1 \/ ns[i - 1] < r)

\* C9 as stated: the sampling replay accepts a proof iff every required
\* sub-epoch index is the sub_epoch_n of some segment of the proof
C9_AcceptsIffCovered ==
    sm_out.stage = "replayed" =>
        /\ sm_out.kind = "ok"
        /\ sm_out.value <=> \A r \in sm_out.required :
                                \E i \in 1..Len(sm_out.ns) : sm_out.ns[i] = r

\* C9 amended: the sampling replay accepts a proof iff every required
\* sub-epoch index is the sub_epoch_n of a segment that is first in the list
\* or directly follows a segment of a smaller sub_epoch_n; a proof missing a
\* required index is rejected and extra indices are accepted
C9_AcceptsIffCoveredInOrder ==
    sm_out.stage = "replayed" =>
        /\ sm_out.kind = "ok"
        /\ sm_out.value <=> \A r \in sm_out.required : MetInOrder(sm_out.ns, r)
        /\ (\E r \in sm_out.required : \A i \in 1..Len(sm_out.ns) : sm_out.ns[i] # r)
               => ~sm_out.value

\* A proof accepted with required indices covered and an extra index
C9_Witness ==
    /\ sm_out.stage = "replayed" /\ sm_out.value
    /\ Cardinality(sm_out.required) >= 2
    /\ \E i \in 1..Len(sm_out.ns) : sm_out.ns[i] \notin sm_out.required

\* Sub-epochs hit by the sampled weights, without the cap
HitSubEpochs(seed, list) ==
    LET n == Len(list)
        w == GetWeightsForSampling(seed, list[n], list[n] - list[n - 2]).w
    IN  {j \in 0..(n - 2) : SampleSubEpoch(list[j + 1], list[j + 2], w)}

\* C10: for the same seed and weights the set of sub-epochs the builder
\* includes segments for equals the set the validator's replay requires,
\* also when more than MAX_SAMPLES sub-epochs are hit
C10_SameSampledSet ==
    sm_out.stage \in {"replayed", "rejected"} =>
        /\ sm_out.stage = "replayed"
        /\ sm_out.kind = "ok"
        /\ sm_out.required = sm_out.sampled
        /\ sm_out.required =
               {j \in HitSubEpochs(sm_in.seed, sm_out.list) :
                   Cardinality({i \in HitSubEpochs(sm_in.seed, sm_out.list) : i < j})
                       < MAX_SAMPLES}

\* More than MAX_SAMPLES sub-epochs hit, both sides keep the first MAX_SAMPLES
C10_Witness ==
    /\ sm_out.stage = "replayed"
    /\ Cardinality(HitSubEpochs(sm_in.seed, sm_out.list)) > MAX_SAMPLES
    /\ Cardinality(sm_out.sampled) = MAX_SAMPLES
    /\ sm_out.required = sm_out.sampled

\* The sub-epochs of which a proof holds segments
SubEpochsOf(wp) == {wp.sub_epoch_segments[i].sub_epoch_n : i \in 1..Len(wp.sub_epoch_segments)}

\* C15: a proof built by _create_proof_of_weight holds segments of at most
\* MAX_SAMPLES distinct sub-epochs, however many sub-epochs the sampled
\* weights hit
C15_AtMostMaxSamples ==
    sm_out.stage \notin {"start", "none"} =>
        Cardinality(SubEpochsOf(sm_out.wp)) <= MAX_SAMPLES

\* A proof just built for weights that hit more than MAX_SAMPLES sub-epochs
C15_Witness ==
    /\ sm_out.stage = "built"
    /\ Cardinality(HitSubEpochs(sm_in.seed, ValidateSubEpochSummaries(sm_out.wp).list)) > MAX_SAMPLES
    /\ Cardinality(SubEpochsOf(sm_out.wp)) = MAX_SAMPLES

\* The segments a proof holds for sub-epoch n, in order
SegmentsOf(wp, n) == SelectSeq(wp.sub_epoch_segments, LAMBDA x : x.sub_epoch_n = n)

\* Two segment lists are equal but for which segments carry the proofs
\* compress_segment strips
SameButPopulation(a, b) ==
    /\ Len(a) = Len(b)
    /\ \A i \in 1..Len(a) : CompressSegment(a[i]) = CompressSegment(b[i])

\* C16 as stated: two proofs built for one chain and tip with distinct seeds
\* have the same sub_epochs and recent_chain_data, and their segment lists
\* differ only in which segments are fully populated
C16_DifferOnlyInPopulation ==
    sm_out.stage = "pair" =>
        /\ sm_out.second.kind = "ok"
        /\ sm_out.second.wp.sub_epochs = sm_out.wp.sub_epochs
        /\ sm_out.second.wp.recent_chain_data = sm_out.wp.recent_chain_data
        /\ SameButPopulation(sm_out.wp.sub_epoch_segments, sm_out.second.wp.sub_epoch_segments)

\* C16 amended: two proofs built for one chain and tip with distinct seeds
\* have the same sub_epochs and recent_chain_data; the sub-epochs they hold
\* segments for may differ, and for a sub-epoch both hold segments for, the
\* segments differ only in which one is fully populated
C16_SameDataSharedSubEpochs ==
    sm_out.stage = "pair" =>
        /\ sm_out.second.kind = "ok"
        /\ sm_out.second.wp.sub_epochs = sm_out.wp.sub_epochs
        /\ sm_out.second.wp.recent_chain_data = sm_out.wp.recent_chain_data
        /\ \A n \in SubEpochsOf(sm_out.wp) \cap SubEpochsOf(sm_out.second.wp) :
               SameButPopulation(SegmentsOf(sm_out.wp, n), SegmentsOf(sm_out.second.wp, n))

\* Two seeds that sample different sub-epochs and, in a sub-epoch both
\* sample, leave different segments fully populated
C16_Witness ==
    /\ sm_out.stage = "pair" /\ sm_out.second.kind = "ok"
    /\ SubEpochsOf(sm_out.wp) # SubEpochsOf(sm_out.second.wp)
    /\ \E n \in SubEpochsOf(sm_out.wp) \cap SubEpochsOf(sm_out.second.wp) :
           /\ Len(SegmentsOf(sm_out.wp, n)) = 2
           /\ SegmentsOf(sm_out.wp, n) # SegmentsOf(sm_out.second.wp, n)

---------------------------------------------------------------------------
(* 12. SpecValidate: a proof is built, travels, and validate_weight_proof  *)
(* runs on it as a task with its worker pool                               *)

ValidateChains ==
    {MakeChain(n, 1, NoneV, g, s) : n \in (MaxSubEpochs - 1)..MaxSubEpochs,
                                    g \in BOOLEAN, s \in {0, 1}}

\* lines 681-701: the fields of SubSlotDataV2 that hold a VDF proof
VdfProofFields ==
    {"cc_signage_point", "cc_infusion_point", "icc_infusion_point", "cc_slot_end", "icc_slot_end"}

\* The segment still carries the VDF proofs compress_segment strips
Uncompressed(segment) == CompressSegment(segment) # segment

\* What a peer can do to the proof it sends
Mutations ==
    {"empty_sub_epochs", "bad_summary", "drop_group", "bad_vdf", "bad_ratio",
     "bad_recent", "empty_recent", "extra_group", "strip_infos", "late_block"}

\* 1-based positions of the segments of the last group of a list
LastGroup(segs) == {i \in 1..Len(segs) : segs[i].sub_epoch_n = segs[Len(segs)].sub_epoch_n}

\* A well-formed first segment for a sub-epoch n the chain does not have
ExtraSegment(n) ==
    Segment(n, <<EosSsd("ok", <<n, 0, 3>>, TRUE),
                 BlockSsd(TRUE, "ok", <<n, 0, 0>>, FALSE, 2, 10),
                 BlockSsd(FALSE, "ok", <<n, 0, 1>>, TRUE, 3, 12),
                 EosSsd("ok", <<n, 0, 2>>, TRUE)>>,
            Some(<<"rc_info", n>>), Some(<<"cc_info", n>>), Some(<<"icc_hash", n>>), Some(2))

\* A challenge entry whose infusion-point VDF does not verify
BadVdf(ssd) == [ssd EXCEPT !.cc_infusion_point = Some("bad")]

\* A challenge entry infused late in its slot
LateInfusion(ssd) == [ssd EXCEPT !.ip_iters = Some(7)]

\* A challenge entry infused a little after the threshold share of its slot
AfterThreshold(ssd) ==
    [ssd EXCEPT !.ip_iters = Some(SUB_SLOT_ITERS_STARTING \div WEIGHT_PROOF_THRESHOLD + 1)]

\* The entries of a segment with its challenge entries changed
OnChallenge(seg, how) ==
    [seg EXCEPT !.sub_slot_data =
        [i \in 1..Len(seg.sub_slot_data) |->
            IF ~IsChallenge(seg.sub_slot_data[i]) THEN seg.sub_slot_data[i]
            ELSE IF how = "bad_vdf" THEN BadVdf(seg.sub_slot_data[i])
            ELSE IF how = "late_block" THEN AfterThreshold(seg.sub_slot_data[i])
            ELSE LateInfusion(seg.sub_slot_data[i])]]

Mutate(m, wp) ==
    LET segs == wp.sub_epoch_segments
        last == IF segs = <<>> THEN {} ELSE LastGroup(segs)
    IN
    CASE m = "empty_sub_epochs" -> [wp EXCEPT !.sub_epochs = <<>>]
      [] m = "bad_summary" ->
            [wp EXCEPT !.sub_epochs[2].reward_chain_hash = <<"forged">>]
      [] m = "drop_group" ->
            [wp EXCEPT !.sub_epoch_segments = SelectSeq(segs, LAMBDA x : x.sub_epoch_n # segs[1].sub_epoch_n)]
      [] m = "bad_vdf" ->
            [wp EXCEPT !.sub_epoch_segments =
                [i \in 1..Len(segs) |-> IF i \in last THEN OnChallenge(segs[i], "bad_vdf")
                                        ELSE segs[i]]]
      [] m = "bad_ratio" ->
            [wp EXCEPT !.sub_epoch_segments =
                [i \in 1..Len(segs) |-> IF i \in last THEN OnChallenge(segs[i], "bad_ratio")
                                        ELSE segs[i]]]
      [] m = "late_block" ->
            [wp EXCEPT !.sub_epoch_segments[Len(segs)] = OnChallenge(segs[Len(segs)], "late_block")]
      [] m = "bad_recent" -> [wp EXCEPT !.recent_chain_data[1].valid = FALSE]
      [] m = "empty_recent" -> [wp EXCEPT !.recent_chain_data = <<>>]
      [] m = "extra_group" ->
            [wp EXCEPT !.sub_epoch_segments = Append(segs, ExtraSegment(Len(wp.sub_epochs)))]
      [] m = "strip_infos" ->
            [wp EXCEPT !.sub_epoch_segments =
                [i \in 1..Len(segs) |->
                    IF i = Len(segs) - Cardinality(last) + 1
                    THEN [segs[i] EXCEPT !.cc_slot_end_info = NoneV]
                    ELSE segs[i]]]

\* A returned tuple (valid, fork_point, summaries) and a raised exception
Return(valid, fork_point, summaries) ==
    [kind |-> "return", valid |-> valid, fork_point |-> fork_point, summaries |-> summaries]
Raised(e) == [kind |-> "raise", error |-> e]

\* line 132: get_fork_point against the validator's own chain
ForkPointOf(ch, summaries) ==
    GetForkPoint(GetSesHeights(ch),
                 [i \in 1..ch.n |-> Some(SesHash(ChainSummaries(ch)[i]))],
                 [i \in 1..Len(summaries) |-> SesHash(summaries[i])])

ValidateInit ==
    /\ v_in \in UNION {{[ch |-> ch, tip |-> t, seed |-> sd] :
                           t \in {ch.peak, ChainSesHeight(ch, ch.n - 2)}, sd \in Seeds} :
                       ch \in ValidateChains}
    /\ v_wp = Idle /\ v_pc = "build" /\ v_sum = Idle /\ v_task = <<>>
    /\ v_recent = "idle" /\ v_done = <<>> /\ v_seen = 0 /\ v_ret = Idle
    /\ ForkIdle /\ SamplingIdle /\ HandlerIdle /\ RecordsIdle

\* lines 67-84: the proof is built
ValidateBuild ==
    /\ v_pc = "build"
    /\ LET r == GetProofOfWeight(v_in.ch, v_in.tip, v_in.seed)
       IN  IF r.kind = "ok"
           THEN v_wp' = [wp |-> r.wp, mut |-> "none", at |-> <<0, 0>>] /\ v_pc' = "flight"
           ELSE v_wp' = v_wp /\ v_pc' = "nobuild"
    /\ UNCHANGED <<v_in, v_sum, v_task, v_recent, v_done, v_seen, v_ret, fvars, svars, hvars, pvars>>

\* The proof arrives as built
Deliver ==
    /\ v_pc = "flight"
    /\ v_pc' = "ready"
    /\ UNCHANGED <<v_in, v_wp, v_sum, v_task, v_recent, v_done, v_seen, v_ret,
                   fvars, svars, hvars, pvars>>

\* The proof arrives altered
Tamper ==
    /\ v_pc = "flight"
    /\ \E m \in Mutations : v_wp' = [wp |-> Mutate(m, v_wp.wp), mut |-> m, at |-> <<0, 0>>]
    /\ v_pc' = "ready"
    /\ UNCHANGED <<v_in, v_sum, v_task, v_recent, v_done, v_seen, v_ret, fvars, svars, hvars, pvars>>

\* The proof arrives with one VDF proof of one entry of a segment the builder
\* left uncompressed replaced by one that does not verify
TamperVdf ==
    /\ v_pc = "flight"
    /\ \E i \in 1..Len(v_wp.wp.sub_epoch_segments) :
       \E e \in 1..Len(v_wp.wp.sub_epoch_segments[i].sub_slot_data) :
       \E f \in VdfProofFields :
          /\ Uncompressed(v_wp.wp.sub_epoch_segments[i])
          /\ ~IsNone(v_wp.wp.sub_epoch_segments[i].sub_slot_data[e][f])
          /\ v_wp' = [wp |-> [v_wp.wp EXCEPT !.sub_epoch_segments[i].sub_slot_data[e][f] = Some("bad")],
                      mut |-> f, at |-> <<i, e>>]
    /\ v_pc' = "ready"
    /\ UNCHANGED <<v_in, v_sum, v_task, v_recent, v_done, v_seen, v_ret, fvars, svars, hvars, pvars>>

\* (False, 0, [])
FalseReturn == Return(FALSE, 0, <<>>)

\* Groups whose segment index is drawn from a generator seeded afresh
GroupsWithFreshChoice(sub_epoch_segments, seed, pos) ==
    LET groups == MapSegmentsBySubEpoch(sub_epoch_segments)
    IN  [g \in 1..Len(groups) |->
            [n |-> groups[g].n, segments |-> groups[g].segments,
             sampled_seg_index |-> Choice(seed, g - 1, Len(groups[g].segments))]]

\* lines 820-836: the groups with the segment index rng.choice draws for
\* each, the stream being at position pos when the first group is met
GroupsWithChoice(sub_epoch_segments, seed, pos) ==
    LET groups == MapSegmentsBySubEpoch(sub_epoch_segments)
    IN  [g \in 1..Len(groups) |->
            [n |-> groups[g].n, segments |-> groups[g].segments,
             sampled_seg_index |-> Choice(seed, pos + g - 1, Len(groups[g].segments))]]

\* lines 99-123 and 820-836, up to the point where validate_weight_proof
\* blocks in as_completed: the early returns, the summaries, the sampling
\* replay and the submission of the recent-chain task and of one task per
\* group.  No await is met on the way, so the step is atomic.
ValidateStart ==
    /\ v_pc = "ready"
    /\ LET wp == v_wp.wp
           v == ValidateSubEpochSummaries(wp)
           r == ValidateSubEpochSampling(v_in.seed, v.list, SubEpochNs(wp.sub_epoch_segments))
           groups == GroupsWithChoice(wp.sub_epoch_segments, v_in.seed, r.pos)
           return(x) == /\ v_ret' = x /\ v_pc' = "done"
                        /\ UNCHANGED <<v_sum, v_task, v_recent>>
       IN  IF Len(wp.sub_epochs) = 0 THEN return(FalseReturn)
           ELSE IF Len(wp.recent_chain_data) = 0 THEN return(Raised("IndexError"))
           ELSE IF v.kind # "ok" THEN return(FalseReturn)
           ELSE IF r.kind # "ok" THEN return(Raised(r.kind))
           ELSE IF ~r.value THEN return(FalseReturn)
           ELSE /\ v_sum' = [summaries |-> v.summaries, groups |-> groups]
                /\ v_task' = [g \in 1..Len(groups) |-> [kind |-> "running"]]
                /\ v_recent' = "running"
                /\ v_pc' = IF Len(groups) = 0 THEN "exit_ok" ELSE "collect"
                /\ v_ret' = v_ret
    /\ UNCHANGED <<v_in, v_wp, v_done, v_seen, fvars, svars, hvars, pvars>>

\* lines 847-911: the worker task of group g completes
WorkerDone ==
    /\ v_pc \in {"collect", "exit_ok", "exit_false", "exit_raise"}
    /\ \E g \in 1..Len(v_task) :
          /\ v_task[g].kind = "running"
          /\ v_task' = [v_task EXCEPT ![g] =
                 ValidateSubEpoch(v_sum.groups[g].sampled_seg_index, v_sum.groups[g].segments,
                                  v_sum.groups[g].n, v_sum.summaries)]
          /\ v_done' = Append(v_done, g)
    /\ UNCHANGED <<v_in, v_wp, v_pc, v_sum, v_recent, v_seen, v_ret, fvars, svars, hvars, pvars>>

\* line 119-121: the recent-chain task completes
RecentDone ==
    /\ v_recent = "running"
    /\ v_recent' = IF ValidateRecentBlocks(v_wp.wp.recent_chain_data) THEN "True" ELSE "False"
    /\ UNCHANGED <<v_in, v_wp, v_pc, v_sum, v_task, v_done, v_seen, v_ret, fvars, svars, hvars, pvars>>

\* lines 839-844: as_completed hands over the next completed future;
\* x.result() re-raises what the worker raised
Collect ==
    /\ v_pc = "collect"
    /\ v_seen < Len(v_done)
    /\ LET x == v_task[v_done[v_seen + 1]]
       IN  IF x.kind # "ok"
           THEN v_pc' = "exit_raise" /\ v_ret' = Raised(x.kind) /\ v_seen' = v_seen + 1
           ELSE IF x.value = FALSE
                THEN v_pc' = "exit_false" /\ v_ret' = v_ret /\ v_seen' = v_seen + 1
           ELSE /\ v_seen' = v_seen + 1
                /\ v_pc' = IF v_seen + 1 = Len(v_task) THEN "exit_ok" ELSE "collect"
                /\ v_ret' = v_ret
    /\ UNCHANGED <<v_in, v_wp, v_sum, v_task, v_recent, v_done, fvars, svars, hvars, pvars>>

\* line 118: leaving the with block shuts the executor down and waits for
\* every submitted task, the recent-chain task included
ExecutorExit ==
    /\ v_pc \in {"exit_ok", "exit_false", "exit_raise"}
    /\ \A g \in 1..Len(v_task) : v_task[g].kind # "running"
    /\ v_recent # "running"
    /\ IF v_pc = "exit_false" THEN v_ret' = FalseReturn /\ v_pc' = "done"
       ELSE IF v_pc = "exit_raise" THEN v_ret' = v_ret /\ v_pc' = "done"
       ELSE v_ret' = v_ret /\ v_pc' = "await"
    /\ UNCHANGED <<v_in, v_wp, v_sum, v_task, v_recent, v_done, v_seen, fvars, svars, hvars, pvars>>

\* lines 128-132
AwaitRecent ==
    /\ v_pc = "await"
    /\ LET fp == ForkPointOf(v_in.ch, v_sum.summaries)
       IN  v_ret' = IF v_recent = "False" THEN FalseReturn
                    ELSE IF fp.kind # "ok" THEN Raised(fp.kind)
                    ELSE Return(TRUE, fp.height, v_sum.summaries)
    /\ v_pc' = "done"
    /\ UNCHANGED <<v_in, v_wp, v_sum, v_task, v_recent, v_done, v_seen, fvars, svars, hvars, pvars>>

ValidateNext ==
    \/ ValidateBuild \/ Deliver \/ Tamper \/ TamperVdf \/ ValidateStart \/ WorkerDone \/ RecentDone
    \/ Collect \/ ExecutorExit \/ AwaitRecent

SpecValidate == ValidateInit /\ [][ValidateNext]_vars

\* Every stage of the validation of the proof in flight passes
StagesPass ==
    LET wp == v_wp.wp
        v == ValidateSubEpochSummaries(wp)
        r == ValidateSubEpochSampling(v_in.seed, v.list, SubEpochNs(wp.sub_epoch_segments))
        groups == GroupsWithChoice(wp.sub_epoch_segments, v_in.seed, r.pos)
    IN  /\ Len(wp.sub_epochs) > 0
        /\ v.kind = "ok"
        /\ r.kind = "ok" /\ r.value
        /\ \A g \in 1..Len(groups) :
               ValidateSubEpoch(groups[g].sampled_seg_index, groups[g].segments,
                                groups[g].n, v.summaries) = [kind |-> "ok", value |-> TRUE]
        /\ ValidateRecentBlocks(wp.recent_chain_data)

\* C1: when a stage of validate_weight_proof fails the call returns exactly
\* (False, 0, []), and it returns (True, fork_point, summaries) only when no
\* stage failed
C1_FailureReturnsFalse ==
    v_pc = "done" =>
        /\ ~StagesPass => v_ret = FalseReturn
        /\ (v_ret.kind = "return" /\ v_ret.valid) => StagesPass

\* C2: a proof built by get_proof_of_weight on a valid chain and validated
\* as built returns (True, fp, summaries) with fp <= tip.height and the
\* summaries of the chain
C2_RoundTrip ==
    (v_pc = "done" /\ v_wp.mut = "none") =>
        /\ v_ret.kind = "return"
        /\ v_ret.valid
        /\ v_ret.fork_point <= v_in.tip
        /\ v_ret.summaries = SubSeq(ChainSummaries(v_in.ch), 1, Len(v_ret.summaries))

\* C6: the call returns valid = True only if every group task and the
\* recent-chain task returned True, and one False group result makes it
\* return False, whatever the order in which the tasks complete
C6_AllTasksTrue ==
    v_pc = "done" =>
        /\ (v_ret.kind = "return" /\ v_ret.valid) =>
               /\ \A g \in 1..Len(v_task) : v_task[g] = [kind |-> "ok", value |-> TRUE]
               /\ v_recent = "True"
        /\ (\E g \in 1..Len(v_task) : v_task[g] = [kind |-> "ok", value |-> FALSE]) =>
               v_ret = FalseReturn

\* C11: for a proof built and validated with the same seed, the segment
\* index the validator draws for each group is the index of the segment the
\* builder left uncompressed in that group
C11_SameSegmentDrawn ==
    (v_wp # Idle /\ v_wp.mut = "none" /\ v_sum # Idle) =>
        \A g \in 1..Len(v_sum.groups) :
            LET grp == v_sum.groups[g]
            IN  \A i \in 1..Len(grp.segments) :
                    Uncompressed(grp.segments[i]) <=> (i = grp.sampled_seg_index + 1)

\* An honest proof in which the validator draws the second segment of a
\* group of two, after a first group
C11_Witness ==
    /\ v_wp # Idle /\ v_wp.mut = "none" /\ v_sum # Idle
    /\ \E g \in 2..Len(v_sum.groups) :
           /\ Len(v_sum.groups[g].segments) = 2
           /\ v_sum.groups[g].sampled_seg_index = 1

\* C12: a proof in which one VDF proof of the sampled, fully validated
\* segment of a group was invalidated makes validate_weight_proof return
\* (False, 0, [])
C12_TamperedVdfRejected ==
    (v_pc = "done" /\ v_wp.mut \in VdfProofFields) => v_ret = FalseReturn

\* lines 905-907: a challenge block of the group is infused later than
\* 1 / WEIGHT_PROOF_THRESHOLD of the slot iterations in force
HasLateBlock(grp, summaries) ==
    \E i \in 1..Len(grp.segments) : \E e \in 1..Len(grp.segments[i].sub_slot_data) :
        LET ssd == grp.segments[i].sub_slot_data[e]
        IN  /\ IsChallenge(ssd) /\ Truthy(ssd.ip_iters)
            /\ WEIGHT_PROOF_THRESHOLD * Get(ssd.ip_iters) > GetCurrSsi(grp.n, summaries)

\* C13: validate_sub_epoch returns False for every group that holds a
\* challenge block whose ip_iters exceeds slot_iters / WEIGHT_PROOF_THRESHOLD
C13_LateBlockRejected ==
    \A g \in 1..Len(v_task) :
        (v_task[g].kind # "running" /\ HasLateBlock(v_sum.groups[g], v_sum.summaries)) =>
            v_task[g] = [kind |-> "ok", value |-> FALSE]

---------------------------------------------------------------------------
(* 13. SpecHandler: concurrent get_proof_of_weight tasks on one handler    *)
(* The tasks run on one event loop: the code between two awaits is one     *)
(* step.  A tip is named by the height of its block.                       *)

NumTasks == 2          \* tasks calling the handler

Tasks == 1..NumTasks

\* The handler's chain: four summaries, peak at height 17
HandlerChain == MakeChain(4, 0, NoneV, TRUE, 0)

\* Tips asked for: the peak and the last summary block (a proof is built),
\* the third and the second summary block (the construction returns None),
\* a block below WEIGHT_PROOF_RECENT_BLOCKS and an unknown hash (early
\* return)
HandlerTips ==
    {HandlerChain.peak, ChainSesHeight(HandlerChain, 3), ChainSesHeight(HandlerChain, 2),
     ChainSesHeight(HandlerChain, 1), 2, HandlerChain.peak + 1}

HandlerSeeds == {1}

\* line 79: what _create_proof_of_weight returns for each tip and seed on
\* the handler's chain
Construction ==
    [tp \in HandlerTips, sd \in HandlerSeeds |->
        IF tp > HandlerChain.peak THEN RetNone
        ELSE CreateProofOfWeight(HandlerChain, tp, sd)]

\* A lock that lets every caller in
AlwaysFree(is_locked, waiting) == TRUE

\* asyncio.Lock.acquire (line 78): the lock is taken at once when it is not
\* held and nobody waits for it
LockFree(is_locked, waiting) == ~is_locked /\ waiting = <<>>

\* A lock released by a plain release() call after the construction, which
\* an exception skips
HeldAfterException(path) == path = "exception"

\* line 78: the state of the lock after the async with block is left by the
\* given path ("success", "none", "exception", "cancelled")
LockAfterExit(path) == FALSE

\* A handler that replaces the proof and leaves the tip as it was
KeepTip(old_tip, new_tip) == old_tip

\* line 83: self.tip after a successful construction
PublishedTip(old_tip, new_tip) == Some(new_tip)

\* A handler that assigns self.proof before it tests the result for None
AssignedProof(old_proof, r) == IF r.kind = "ok" THEN Some(r.wp) ELSE NoneV

\* lines 80-82: self.proof after the construction returned; a result of None
\* returns before the assignment
StoredProof(old_proof, r) == IF r.kind = "ok" THEN Some(r.wp) ELSE old_proof

\* The last value get_proof_of_weight returned: the tip it was called with,
\* whether it was None or a proof, and a bit that flips at every return.
\* Returns are recorded when the record starts as Pending and not when it
\* starts as Idle.
Returns(last, tp, what) ==
    IF last = Idle THEN Idle
    ELSE [kind |-> "returned", tip |-> tp, value |-> what,
          flip |-> IF last = Pending THEN FALSE ELSE ~last.flip]

HandlerInit ==
    /\ tip = NoneV /\ proof = NoneV
    /\ locked = FALSE /\ waiters = <<>>
    /\ pc = [t \in Tasks |-> "idle"]
    /\ arg = [t \in Tasks |-> Idle]
    /\ exits = {} /\ returned = Idle
    /\ ForkIdle /\ SamplingIdle /\ ValidateIdle /\ RecordsIdle

\* lines 67-78: a task calls get_proof_of_weight(tip, seed); the early
\* returns, then the lock is taken or the task queues for it
Call(t) ==
    /\ pc[t] = "idle"
    /\ \E tp \in HandlerTips, sd \in HandlerSeeds :
          IF tp > HandlerChain.peak \/ tp < WEIGHT_PROOF_RECENT_BLOCKS
          THEN /\ returned' = Returns(returned, tp, "None")
               /\ UNCHANGED <<locked, waiters, pc, arg>>
          ELSE /\ arg' = [arg EXCEPT ![t] = [tip |-> tp, seed |-> sd]]
               /\ returned' = returned
               /\ IF LockFree(locked, waiters)
                  THEN /\ locked' = TRUE
                       /\ pc' = [pc EXCEPT ![t] = "create"]
                       /\ waiters' = waiters
                  ELSE /\ waiters' = Append(waiters, t)
                       /\ pc' = [pc EXCEPT ![t] = "waiting"]
                       /\ locked' = locked
    /\ UNCHANGED <<tip, proof, exits, fvars, svars, vvars, pvars>>

\* asyncio.Lock.acquire (line 78): the first waiter is woken when the lock
\* is free and takes it
WakeUp(t) ==
    /\ pc[t] = "waiting"
    /\ ~locked
    /\ waiters # <<>> /\ Head(waiters) = t
    /\ locked' = TRUE
    /\ waiters' = Tail(waiters)
    /\ pc' = [pc EXCEPT ![t] = "create"]
    /\ UNCHANGED <<tip, proof, arg, exits, returned, fvars, svars, vvars, pvars>>

\* lines 79-84: the construction completes; (proof, tip) is replaced when
\* it returned a proof, and the lock is released
Finish(t) ==
    /\ pc[t] = "create"
    /\ LET r == Construction[arg[t].tip, arg[t].seed]
       IN  IF r.kind = "ok"
           THEN /\ proof' = StoredProof(proof, r)
                /\ tip' = PublishedTip(tip, arg[t].tip)
                /\ locked' = LockAfterExit("success")
                /\ exits' = exits \cup {"success"}
                /\ returned' = Returns(returned, arg[t].tip, "proof")
           ELSE /\ proof' = StoredProof(proof, r)
                /\ tip' = tip
                /\ locked' = LockAfterExit("none")
                /\ exits' = exits \cup {"none"}
                /\ returned' = Returns(returned, arg[t].tip, "None")
    /\ pc' = [pc EXCEPT ![t] = "idle"]
    /\ arg' = [arg EXCEPT ![t] = Idle]
    /\ UNCHANGED <<waiters, fvars, svars, vvars, pvars>>

\* line 79: an awaited call of the construction raises
Fail(t) ==
    /\ pc[t] = "create"
    /\ locked' = LockAfterExit("exception")
    /\ exits' = exits \cup {"exception"}
    /\ pc' = [pc EXCEPT ![t] = "idle"]
    /\ arg' = [arg EXCEPT ![t] = Idle]
    /\ UNCHANGED <<tip, proof, waiters, returned, fvars, svars, vvars, pvars>>

\* lines 78-79: the task is cancelled while it awaits the construction
CancelCreate(t) ==
    /\ pc[t] = "create"
    /\ locked' = LockAfterExit("cancelled")
    /\ exits' = exits \cup {"cancelled"}
    /\ pc' = [pc EXCEPT ![t] = "idle"]
    /\ arg' = [arg EXCEPT ![t] = Idle]
    /\ UNCHANGED <<tip, proof, waiters, returned, fvars, svars, vvars, pvars>>

\* line 78: the task is cancelled while it waits for the lock
CancelWaiting(t) ==
    /\ pc[t] = "waiting"
    /\ waiters' = SelectSeq(waiters, LAMBDA x : x # t)
    /\ pc' = [pc EXCEPT ![t] = "idle"]
    /\ arg' = [arg EXCEPT ![t] = Idle]
    /\ UNCHANGED <<tip, proof, locked, exits, returned, fvars, svars, vvars, pvars>>

HandlerNext ==
    \E t \in Tasks :
        \/ Call(t) \/ WakeUp(t) \/ Finish(t) \/ Fail(t) \/ CancelCreate(t)
        \/ CancelWaiting(t)

SpecHandler == HandlerInit /\ [][HandlerNext]_vars

\* The handler with the value of every return recorded
HandlerReturnsInit ==
    /\ tip = NoneV /\ proof = NoneV
    /\ locked = FALSE /\ waiters = <<>>
    /\ pc = [t \in Tasks |-> "idle"]
    /\ arg = [t \in Tasks |-> Idle]
    /\ exits = {} /\ returned = Pending
    /\ ForkIdle /\ SamplingIdle /\ ValidateIdle /\ RecordsIdle

SpecHandlerReturns == HandlerReturnsInit /\ [][HandlerNext]_vars

\* The event loop runs a task that is ready: a construction in progress
\* ends by one of its exits, and a woken waiter runs
SpecHandlerFair ==
    /\ SpecHandler
    /\ WF_vars(\E t \in Tasks : Finish(t) \/ Fail(t) \/ CancelCreate(t))
    /\ WF_vars(\E t \in Tasks : WakeUp(t))

\* C3: at most one call is inside _create_proof_of_weight at any time
C3_OneConstruction == Cardinality({t \in Tasks : pc[t] = "create"}) <= 1

\* One call constructs while another waits for the lock
C3_Witness == \E t, u \in Tasks : pc[t] = "create" /\ pc[u] = "waiting"

\* C4: (tip, proof) is a consistent pair at every point where a task can
\* observe the handler: both None, or proof is the proof a successful
\* construction returned for tip
C4_ConsistentPair ==
    \/ IsNone(tip) /\ IsNone(proof)
    \/ /\ ~IsNone(tip) /\ ~IsNone(proof)
       /\ \E sd \in HandlerSeeds :
              LET r == Construction[Get(tip), sd]
              IN  r.kind = "ok" /\ r.wp = Get(proof)

\* A pair is published while another construction, for another tip, runs
C4_Witness ==
    /\ ~IsNone(tip) /\ ~IsNone(proof)
    /\ \E t \in Tasks : pc[t] = "create" /\ arg[t].tip # Get(tip)

\* C5: the lock is held only while a call is inside the construction, by
\* whichever path the previous holder left, and a call that waits for the
\* lock eventually stops waiting
C5_LockReleased ==
    /\ [](locked => \E t \in Tasks : pc[t] = "create")
    /\ \A t \in Tasks : (pc[t] = "waiting") ~> (pc[t] # "waiting")

\* Holders have left by success, None, exception and cancellation, and a
\* later call holds the lock
C5_Witness ==
    /\ {"success", "none", "exception", "cancelled"} \subseteq exits
    /\ locked /\ \E t \in Tasks : pc[t] = "create"

\* 0-based positions of the summary blocks at or below height tp
SummariesBelow(tp) ==
    {j \in 0..(HandlerChain.n - 1) : ChainSesHeight(HandlerChain, j) <= tp}

\* lines 183 and 560-563 for a tip with three summaries or more below it:
\* the weight of the last L blocks over the weight at the last summary
\* block is 1/2 or more
OracleNonPositive(tp) ==
    LET below == SummariesBelow(tp)
        last == CHOOSE j \in below : \A k \in below : k <= j
        total_weight == ChainWeight(HandlerChain, ChainSesHeight(HandlerChain, last))
        prev_prev_weight == ChainWeight(HandlerChain, ChainSesHeight(HandlerChain, last - 2))
    IN  2 * (total_weight - prev_prev_weight) >= total_weight

\* The tip is unknown, or below WEIGHT_PROOF_RECENT_BLOCKS, or has fewer
\* than three summaries at or below it, or the oracle yields p <= 0
NoProofTip(tp) ==
    \/ tp > HandlerChain.peak
    \/ tp < WEIGHT_PROOF_RECENT_BLOCKS
    \/ Cardinality(SummariesBelow(tp)) < 3
    \/ OracleNonPositive(tp)

\* C14: a call of get_proof_of_weight for an unknown tip, a tip below
\* WEIGHT_PROOF_RECENT_BLOCKS, a tip with fewer than three summaries at or
\* below it or a tip for which the oracle yields p <= 0 returns None and
\* leaves the handler's proof and tip as they were
C14_NoneAndNoProof ==
    [][(returned' # returned /\ NoProofTip(returned'.tip)) =>
           /\ returned'.value = "None"
           /\ proof' = proof /\ tip' = tip]_vars

\* The handler holds a proof and a later call, for the third summary block
\* where p <= 0, has returned None
C14_Witness ==
    /\ ~IsNone(proof)
    /\ returned \notin {Idle, Pending} /\ returned.tip = ChainSesHeight(HandlerChain, 2)
    /\ Cardinality(SummariesBelow(returned.tip)) = 3 /\ OracleNonPositive(returned.tip)
    /\ returned.value = "None"

---------------------------------------------------------------------------
(* 14. SpecRecords: the conversions between summaries and sub-epoch data,  *)
(* the segment builder and the compression, applied to drawn inputs        *)

MaxLinked == 2         \* most summaries of a drawn sequence
MaxData == 3           \* most sub-epoch data records of a drawn sequence
MaxEntries == 4        \* most sub slot data entries of a drawn segment
MaxBlocks == 5         \* most blocks after se_start in a drawn chain stretch

\* Sub-epoch data records that differ in overflow and announced difficulty
DrawnData ==
    {SubEpochData(<<"rc", 0>>, ov, NoneV, diff) : ov \in {0, 1}, diff \in {NoneV, Some(2), Some(3)}}

\* The fields of a summary other than the hash of its predecessor
SummaryFields ==
    [rc : {<<"rc", 0>>, <<"rc", 1>>}, ov : {0, 1}, diff : {NoneV, Some(2)},
     ssi : {NoneV, Some(16)}]

\* The summaries with the given fields, each carrying the hash of the one
\* before it and the first carrying start
RECURSIVE LinkFrom(_, _)
LinkFrom(start, fields) ==
    IF fields = <<>> THEN <<>>
    ELSE LET ses == SubEpochSummary(start, fields[1].rc, fields[1].ov, fields[1].diff,
                                    fields[1].ssi)
         IN  <<ses>> \o LinkFrom(SesHash(ses), Tail(fields))

\* The sequence starts from GENESIS_CHALLENGE and each summary carries the
\* hash of its predecessor
Linked(summaries) ==
    /\ summaries # <<>>
    /\ summaries[1].prev_subepoch_summary_hash = GENESIS_CHALLENGE
    /\ \A i \in 2..Len(summaries) :
           summaries[i].prev_subepoch_summary_hash = SesHash(summaries[i - 1])

\* Records as handle_block_vdfs and handle_finished_slots return them
DrawnRecords ==
    {HandleBlockVdfs(chal, sp, icc, "ok", <<"r">>, 3, 12) : chal, sp, icc \in BOOLEAN}
        \cup {EosSsd("ok", <<"r">>, icc) : icc \in BOOLEAN}

\* A segment of a later sub-epoch around a challenge block
DrawnSegment(before, after) ==
    Segment(1, <<before, BlockSsd(TRUE, "ok", <<"c">>, FALSE, 2, 10), after>>,
            Some(<<"rc_info", 1>>), Some(<<"cc_info", 1>>), Some(<<"icc_hash", 1>>), NoneV)

\* Chains whose sub-epochs have one or two segments, with and without a
\* slot end in the first
RecordChains == {MakeChain(3, 1, NoneV, g, s) : g \in BOOLEAN, s \in {0, 1}}

\* Chains long enough for the sampling to hit sub-epochs, with one or two
\* segments in a sub-epoch
StoreChains == {MakeChain(n, a, NoneV, TRUE, s) : n \in {4, 5}, a \in {0, 1}, s \in {0, 1}}

\* Chains whose recent blocks are collected: summary blocks on time and late
RecentChains == {MakeChain(n, a, NoneV, TRUE, 0) : n \in 3..4, a \in {0, 1}}

\* What a peer can do to the summaries and the recent chain of a proof
SummaryMutations ==
    {"none", "bad_summary", "forged_last", "no_ses", "forged_ses", "empty_recent"}

MutateSummaries(m, wp) ==
    CASE m = "none" -> wp
      [] m = "bad_summary" -> [wp EXCEPT !.sub_epochs[2].reward_chain_hash = <<"forged">>]
      [] m = "forged_last" ->
            [wp EXCEPT !.sub_epochs[Len(wp.sub_epochs)].reward_chain_hash = <<"forged">>]
      [] m = "no_ses" ->
            [wp EXCEPT !.recent_chain_data =
                [i \in 1..Len(wp.recent_chain_data) |->
                    [wp.recent_chain_data[i] EXCEPT !.ses_hash = NoneV]]]
      [] m = "forged_ses" ->
            [wp EXCEPT !.recent_chain_data =
                [i \in 1..Len(wp.recent_chain_data) |->
                    IF IsNone(wp.recent_chain_data[i].ses_hash) THEN wp.recent_chain_data[i]
                    ELSE [wp.recent_chain_data[i] EXCEPT !.ses_hash = Some(<<"forged">>)]]]
      [] m = "empty_recent" -> [wp EXCEPT !.recent_chain_data = <<>>]

\* What a peer can do to the boundary fields of the first segment of a group
\* and to the summary the group is checked against
BoundaryMutations ==
    {"none", "forged_rc_info", "forged_cc_info", "forged_icc_hash", "other_prev_iters",
     "forged_summary"}

MutateBoundary(m, segments) ==
    CASE m = "forged_rc_info" -> [segments EXCEPT ![1].rc_slot_end_info = Some(<<"forged">>)]
      [] m = "forged_cc_info" -> [segments EXCEPT ![1].cc_slot_end_info = Some(<<"forged">>)]
      [] m = "forged_icc_hash" -> [segments EXCEPT ![1].icc_sub_slot_hash = Some(<<"forged">>)]
      [] m = "other_prev_iters" -> [segments EXCEPT ![1].prev_icc_ip_iters = Some(3)]
      [] OTHER -> segments

ForgedSummary(m, summaries, sub_epoch_n) ==
    IF m = "forged_summary"
    THEN [summaries EXCEPT ![sub_epoch_n + 1].reward_chain_hash = <<"forged">>]
    ELSE summaries

\* The entries of a drawn segment: a challenge block ("c"), an overflow
\* challenge block ("o"), another block ("b"), a slot end ("e"); j is the
\* 1-based position of the entry
EntryKinds == {"c", "o", "b", "e"}

DrawnEntry(kind, j) ==
    IF kind = "e" THEN EosSsd("ok", <<"x", j>>, TRUE)
    ELSE IF kind = "b" THEN BlockSsd(FALSE, "ok", <<"x", j>>, TRUE, 2, 10 + j)
    ELSE IF kind = "c" THEN BlockSsd(TRUE, "ok", <<"x", j>>, FALSE, 2, 10 + j)
    ELSE [BlockSsd(TRUE, "ok", <<"x", j>>, FALSE, 2, 10 + j)
             EXCEPT !.signage_point_index = Some(OVERFLOW_SP_INDEX)]

\* A segment of sub-epoch 1 with entries of the given kinds
ShapedSegment(shape) ==
    Segment(1, [j \in 1..Len(shape) |-> DrawnEntry(shape[j], j)],
            Some(<<"rc_info", 1>>), Some(<<"cc_info", 1>>), Some(<<"icc_hash", 1>>), NoneV)

\* ClassgroupElement.get_default_element()
DefaultElement == <<"default">>

\* The fields of a BlockRecord and its HeaderBlock that the walks of the
\* segment builder read: slots is the number of finished_sub_slots, blue
\* says whether the first of them is blue-boxed, ses whether
\* sub_epoch_summary_included is set
BlockRec(height, deficit, slots, blue, ses) ==
    [height |-> height, deficit |-> deficit, slots |-> slots, blue |-> blue, ses |-> ses]

\* BlockRecord.is_challenge_block and HeaderBlock.first_in_sub_slot
\* (chia.consensus.block_record, chia.types.header_block, not among the
\* source files)
IsChallengeBlock(b) == b.deficit = MIN_BLOCKS_PER_CHALLENGE_BLOCK - 1
FirstInSubSlot(b) == b.slots > 0

\* The block at a height of a chain stretch bs, whose first block is
\* se_start; a height past its end is not among the fetched blocks
InRange(bs, h) == h - bs[1].height + 1 \in 1..Len(bs)
BlockAt(bs, h) == bs[h - bs[1].height + 1]

\* deficit of the block before height h; the block before se_start closes a
\* sub-epoch, which needs deficit 0
PrevDeficit(bs, h) == IF h = bs[1].height THEN 0 ELSE BlockAt(bs, h - 1).deficit

\* handle_block_vdfs (line 589) and handle_finished_slots (line 681) on a
\* block of the stretch
BlockEntry(b) ==
    HandleBlockVdfs(IsChallengeBlock(b), TRUE, ~IsChallengeBlock(b), "ok", <<"h", b.height>>,
                    2, 10 + b.height)
FinishedEntries(b) == [k \in 1..b.slots |-> EosSsd("ok", <<"h", b.height, k>>, TRUE)]

\* line 490: the tentative records are kept when the bundle is not
\* blue-boxed
KeepTentative(blue_boxed) == ~blue_boxed

\* lines 470-471: back to the first block whose predecessor has deficit 0
RECURSIVE SlotStart(_, _)
SlotStart(bs, h) ==
    IF h # 0 /\ PrevDeficit(bs, h) # 0 THEN SlotStart(bs, h - 1) ELSE h

\* lines 483-495, the loop at height h below the challenge block's
RECURSIVE FirstWalk(_, _, _, _, _)
FirstWalk(bs, h, header_height, sub_slots_data, tmp_sub_slots_data) ==
    IF h >= header_height THEN sub_slots_data \o tmp_sub_slots_data
    ELSE LET curr == BlockAt(bs, h)
             data == IF FirstInSubSlot(curr)
                     THEN (IF KeepTentative(curr.blue) THEN sub_slots_data \o tmp_sub_slots_data
                           ELSE sub_slots_data) \o FinishedEntries(curr)
                     ELSE sub_slots_data
             tmp == IF FirstInSubSlot(curr) THEN <<>> ELSE tmp_sub_slots_data
         IN  FirstWalk(bs, h + 1, header_height, data, Append(tmp, BlockEntry(curr)))

\* __first_sub_slot_vdfs (lines 459-504) for the challenge block at
\* header_height: kind "None" stands for (None, None)
FirstSubSlotVdfs(bs, header_height, first_in_sub_epoch) ==
    LET start == SlotStart(bs, header_height) IN
    IF first_in_sub_epoch /\ start > 0 /\ ~BlockAt(bs, start).ses THEN RetNone
    ELSE IF first_in_sub_epoch /\ start > 0 /\ BlockAt(bs, start).slots = 0
         THEN Raise("IndexError")
    ELSE [kind |-> "ok",
          sub_slots |-> FirstWalk(bs, start, header_height, <<>>, <<>>)
                            \o FinishedEntries(BlockAt(bs, header_height))]

\* __slot_end_vdf (lines 517-546), the loop at height h; a height that is
\* not among the fetched header blocks raises KeyError
RECURSIVE SlotEndWalk(_, _, _, _)
SlotEndWalk(bs, h, sub_slots_data, tmp_sub_slots_data) ==
    IF ~InRange(bs, h) THEN Raise("KeyError")
    ELSE
    LET curr == BlockAt(bs, h)
        data == IF FirstInSubSlot(curr)
                THEN sub_slots_data \o tmp_sub_slots_data \o FinishedEntries(curr)
                ELSE sub_slots_data
        tmp == Append(IF FirstInSubSlot(curr) THEN <<>> ELSE tmp_sub_slots_data,
                      BlockEntry(curr))
    IN  IF IsChallengeBlock(curr)
        THEN [kind |-> "ok", sub_slots |-> sub_slots_data \o tmp_sub_slots_data,
              height |-> h]
        ELSE IF ~InRange(bs, h + 1) THEN Raise("KeyError")
        ELSE IF BlockAt(bs, h + 1).deficit = MIN_BLOCKS_PER_CHALLENGE_BLOCK
             THEN [kind |-> "ok", sub_slots |-> data \o tmp, height |-> h + 1]
        ELSE SlotEndWalk(bs, h + 1, data, tmp)

SlotEndVdf(bs, start_height) == SlotEndWalk(bs, start_height, <<>>, <<>>)

\* _create_challenge_segment (lines 391-457) for the challenge block at
\* header_height; the boundary fields of lines 423-456 are named, not
\* computed
ChallengeSegmentAt(bs, header_height, sub_epoch_n, first_segment_in_sub_epoch) ==
    LET first == FirstSubSlotVdfs(bs, header_height, first_segment_in_sub_epoch)
        slot_end == SlotEndVdf(bs, header_height + 1)
        sub_slots == first.sub_slots \o <<BlockEntry(BlockAt(bs, header_height))>>
                         \o slot_end.sub_slots
    IN  IF first.kind # "ok" THEN first
        ELSE IF slot_end.kind # "ok" THEN slot_end
        ELSE [kind |-> "ok", height |-> slot_end.height,
              seg |-> IF first_segment_in_sub_epoch /\ sub_epoch_n # 0
                      THEN Segment(sub_epoch_n, sub_slots, Some(<<"rc_info", sub_epoch_n>>),
                                   Some(<<"cc_info", sub_epoch_n>>),
                                   Some(<<"icc_hash", sub_epoch_n>>), NoneV)
                      ELSE Segment(sub_epoch_n, sub_slots, NoneV, NoneV, NoneV, NoneV)]

\* A step that stays at the challenge block
SameHeight(height, end_height) == height

\* line 376: the walk goes on at the height _create_challenge_segment
\* returned
HeightAfterSegment(height, end_height) == end_height

\* __create_sub_epoch_segments (lines 354-389), the loop at a height; w holds
\* the segments, the flag first, and the heights the loop stood at.  A None
\* from _create_challenge_segment ends it with None; a loop that stood at
\* more heights than the stretch has blocks never ends (kind "diverges").
RECURSIVE SegmentsWalk(_, _, _, _, _)
SegmentsWalk(bs, ses_height, sub_epoch_n, height, w) ==
    IF Len(w.visited) > Len(bs) THEN [kind |-> "diverges"]
    ELSE IF ~InRange(bs, height) THEN Raise("KeyError")
    ELSE IF height >= ses_height
         THEN [kind |-> "ok", segments |-> w.segments, visited |-> w.visited]
    ELSE IF IsChallengeBlock(BlockAt(bs, height))
         THEN LET r == ChallengeSegmentAt(bs, height, sub_epoch_n, w.first)
              IN  IF r.kind # "ok" THEN r
                  ELSE SegmentsWalk(bs, ses_height, sub_epoch_n,
                                    HeightAfterSegment(height, r.height),
                                    [segments |-> Append(w.segments, r.seg), first |-> FALSE,
                                     visited |-> Append(w.visited, height)])
    ELSE SegmentsWalk(bs, ses_height, sub_epoch_n, height + 1,
                      [w EXCEPT !.visited = Append(@, height)])

CreateSegmentsOfStretch(bs, sub_epoch_n) ==
    SegmentsWalk(bs, bs[Len(bs)].height, sub_epoch_n, bs[1].height,
                 [segments |-> <<>>, first |-> TRUE, visited |-> <<>>])

\* lines 1421-1433, the loop at 1-based position p (ssd_idx = p - 1): where
\* it ends (ssd) and whether it ran past the first entry (reached_start)
RECURSIVE VdfInfoWalk(_, _, _, _, _)
VdfInfoWalk(sub_slots, p, slots_n, slots_seen, sp_total_iters) ==
    LET ssd == sub_slots[p]
        seen == IF IsEndOfSlot(ssd) THEN slots_seen + 1 ELSE slots_seen
    IN  IF ~IsEndOfSlot(ssd) /\ ~Truthy(ssd.total_iters) THEN Raise("AssertionError")
        ELSE IF IsEndOfSlot(ssd) /\ seen = slots_n
             THEN [kind |-> "ok", ssd |-> p, reached_start |-> FALSE]
        ELSE IF ~IsEndOfSlot(ssd) /\ ~(Get(ssd.total_iters) > sp_total_iters)
             THEN [kind |-> "ok", ssd |-> p, reached_start |-> FALSE]
        ELSE IF p = 1 THEN [kind |-> "ok", ssd |-> p, reached_start |-> TRUE]
        ELSE VdfInfoWalk(sub_slots, p - 1, slots_n, seen, sp_total_iters)

\* A lookup that always answers the default element
VdfInfoDefault(sub_slot_idx, sub_slots, is_overflow, sp_total_iters, sp_iters) ==
    [kind |-> "ok", input |-> DefaultElement, iters |-> sp_iters]

\* lines 1409-1441; sub_slot_idx is the 0-based index the code is given, so
\* the entries before it are at the 1-based positions 1..sub_slot_idx
SubSlotDataVdfInfo(sub_slot_idx, sub_slots, is_overflow, sp_total_iters, sp_iters) ==
    IF sub_slot_idx = 0 THEN Raise("AssertionError")
    ELSE
    LET w == VdfInfoWalk(sub_slots, sub_slot_idx, IF is_overflow THEN 2 ELSE 1, 0,
                         sp_total_iters)
        default == [kind |-> "ok", input |-> DefaultElement, iters |-> sp_iters]
    IN  IF w.kind # "ok" THEN w
        ELSE IF ~IsEndOfSlot(sub_slots[w.ssd]) /\ ~w.reached_start
             THEN IF Get(sub_slots[w.ssd].total_iters) < sp_total_iters
                  THEN IF IsNone(sub_slots[w.ssd].cc_ip_vdf_output)
                       THEN Raise("AssertionError")
                       ELSE [kind |-> "ok", input |-> Get(sub_slots[w.ssd].cc_ip_vdf_output),
                             iters |-> sp_total_iters - Get(sub_slots[w.ssd].total_iters)]
                  ELSE default
        ELSE default

\* The blocks after se_start: in the slot of the block before ("n"), the
\* same as an overflow block ("v"), first in a new slot ("s"), first after a
\* blue-boxed slot end ("u"), first in a new slot as an overflow block ("o")
BlockKinds == {"n", "v", "s", "u", "o"}

\* calculate_deficit (chia/consensus/deficit.py, not among the source
\* files) for a block with one or no finished sub slot
NextDeficit(prev_deficit, kind) ==
    IF prev_deficit = MIN_BLOCKS_PER_CHALLENGE_BLOCK
    THEN IF kind = "v" THEN prev_deficit ELSE prev_deficit - 1
    ELSE IF prev_deficit = 0
         THEN IF kind \in {"n", "v"} THEN 0
              ELSE IF kind = "o" THEN MIN_BLOCKS_PER_CHALLENGE_BLOCK
              ELSE MIN_BLOCKS_PER_CHALLENGE_BLOCK - 1
    ELSE prev_deficit - 1

RECURSIVE BlocksFrom(_, _, _)
BlocksFrom(prev, kinds, i) ==
    IF i > Len(kinds) THEN <<>>
    ELSE LET b == BlockRec(prev.height + 1, NextDeficit(prev.deficit, kinds[i]),
                           IF kinds[i] \in {"s", "u", "o"} THEN 1 ELSE 0, kinds[i] = "u",
                           i = Len(kinds))
         IN  <<b>> \o BlocksFrom(b, kinds, i + 1)

\* se_start: the genesis block (line 196), or the block that carries the
\* summary of the sub-epoch before, first in its slot
StartBlocks ==
    {BlockRec(0, MIN_BLOCKS_PER_CHALLENGE_BLOCK - 1, 0, FALSE, FALSE),
     BlockRec(20, MIN_BLOCKS_PER_CHALLENGE_BLOCK - 1, 1, FALSE, TRUE),
     BlockRec(20, MIN_BLOCKS_PER_CHALLENGE_BLOCK, 1, FALSE, TRUE)}

\* The stretches from se_start to ses_block: the last block carries the next
\* summary, so it is first in its slot and follows a block of deficit 0
Stretches ==
    {bs \in {<<st>> \o BlocksFrom(st, kinds, 1) :
                 st \in StartBlocks, kinds \in SeqsOf(BlockKinds, 1, MaxBlocks)} :
        /\ bs[Len(bs)].slots > 0
        /\ bs[Len(bs) - 1].deficit = 0}

\* A later segment of a sub-epoch: no slot end infos (line 453)
FollowingSegment(shape) ==
    Segment(1, [j \in 1..Len(shape) |-> DrawnEntry(shape[j], j)], NoneV, NoneV, NoneV, NoneV)

FollowingShapes == {<<"e", "c">>, <<"c", "e">>}

\* The summary of the sub-epoch before, when there is one (line 866)
DrawnPrevSes ==
    {NoneV, Some(SubEpochSummary(GENESIS_CHALLENGE, <<"rc">>, 0, Some(2), Some(16)))}

RecordsInit ==
    /\ pf_in \in
          {[op |-> "summaries", summaries |-> LinkFrom(st, fs)] :
               st \in {GENESIS_CHALLENGE, <<"other">>},
               fs \in SeqsOf(SummaryFields, 1, MaxLinked)}
          \cup {[op |-> "build", ch |-> ch, sub_epoch_n |-> n] :
                    ch \in RecordChains, n \in 0..2}
          \cup {[op |-> "compress", idx |-> idx,
                 segments |-> <<DrawnSegment(a, b), DrawnSegment(b, a)>>] :
                    a \in DrawnRecords, b \in DrawnRecords, idx \in 0..2}
          \cup {[op |-> "weights", data |-> data] : data \in SeqsOf(DrawnData, 1, MaxData)}
          \cup UNION {{[op |-> "validate", mut |-> m,
                         wp |-> MutateSummaries(m,
                                    WeightProofV2(GetSubEpochData(ch, h), <<>>,
                                                  GetRecentChain(ch, h)))] :
                           m \in SummaryMutations,
                           h \in {t \in 0..ch.peak :
                                     ~IsNone(GetLastLWeight(GetSesHeights(ch), t))}} :
                       ch \in RecentChains}
          \cup UNION {{[op |-> "group", mut |-> m, sub_epoch_n |-> n, sampled_seg_index |-> idx,
                         segments |-> MutateBoundary(m, CompressSegments(idx, ChainSegments(ch, n))),
                         summaries |-> ForgedSummary(m, ChainSummaries(ch), n)] :
                           m \in BoundaryMutations, n \in 0..(ch.n - 1),
                           idx \in 0..1} :
                       ch \in RecordChains}
          \cup {[op |-> "segment", shape |-> shape, segment |-> ShapedSegment(shape),
                 prev_ses |-> ps, idx |-> idx, sampled |-> sampled] :
                    shape \in SeqsOf(EntryKinds, 1, MaxEntries), ps \in DrawnPrevSes,
                    idx \in {0, 1}, sampled \in BOOLEAN}
          \cup {[op |-> "vdf_info", shape |-> shape,
                 sub_slots |-> [j \in 1..Len(shape) |-> DrawnEntry(shape[j], j)],
                 is_overflow |-> ovf, sp_total_iters |-> t] :
                    shape \in SeqsOf({"b", "e"}, 2, MaxEntries), ovf \in BOOLEAN,
                    t \in 10..(10 + MaxEntries)}
          \cup {[op |-> "stretch", bs |-> bs, sub_epoch_n |-> IF bs[1].height = 0 THEN 0 ELSE 1] :
                    bs \in Stretches}
          \cup {[op |-> "store", ch |-> ch] : ch \in StoreChains}
          \cup {[op |-> "recent", ch |-> ch, tip_height |-> h] :
                    ch \in RecentChains, h \in 0..17}
    /\ pf_out = Idle
    /\ ForkIdle /\ SamplingIdle /\ ValidateIdle /\ HandlerIdle

\* lines 577-586 on each summary, then lines 780-815 on the result
MapRoundTrip ==
    /\ pf_in.op = "summaries" /\ pf_out = Idle
    /\ LET data == [i \in 1..Len(pf_in.summaries) |->
                        CreateSubEpochData(pf_in.summaries[i])]
       IN  pf_out' = [stage |-> "mapped", data |-> data,
                      result |-> MapSubEpochSummaries(data)]
    /\ UNCHANGED <<pf_in, fvars, svars, vvars, hvars>>

\* lines 354-389: the builder makes the segments of a sub-epoch
BuildSegments ==
    /\ pf_in.op = "build" /\ pf_out = Idle
    /\ pf_out' = [stage |-> "built",
                  segments |-> CreateSubEpochSegments(pf_in.ch, pf_in.sub_epoch_n)]
    /\ UNCHANGED <<pf_in, fvars, svars, vvars, hvars>>

\* lines 228-229: the segments just built are compressed around one of them
CompressBuilt ==
    /\ pf_out # Idle /\ pf_out.stage = "built"
    /\ \E idx \in 0..(Len(pf_out.segments) - 1) :
          pf_out' = [stage |-> "compressed", idx |-> idx, segments |-> pf_out.segments,
                     compressed |-> CompressSegments(idx, pf_out.segments)]
    /\ UNCHANGED <<pf_in, fvars, svars, vvars, hvars>>

\* lines 704-713 on a drawn list and index
CompressDrawn ==
    /\ pf_in.op = "compress" /\ pf_out = Idle
    /\ pf_out' = [stage |-> "compressed", idx |-> pf_in.idx, segments |-> pf_in.segments,
                  compressed |-> CompressSegments(pf_in.idx, pf_in.segments)]
    /\ UNCHANGED <<pf_in, fvars, svars, vvars, hvars>>

\* lines 175-180 and 233: _create_proof_of_weight makes the coroutine of
\* _get_recent_chain for a tip of the chain and awaits it only after
\* get_last_l_weight found its two summary blocks
CollectRecent ==
    /\ pf_in.op = "recent" /\ pf_out = Idle
    /\ pf_in.tip_height <= pf_in.ch.peak
    /\ pf_out' =
          IF IsNone(GetLastLWeight(GetSesHeights(pf_in.ch), pf_in.tip_height))
          THEN [stage |-> "recent", awaited |-> FALSE, recent_chain |-> <<>>]
          ELSE [stage |-> "recent", awaited |-> TRUE,
                recent_chain |-> GetRecentChain(pf_in.ch, pf_in.tip_height)]
    /\ UNCHANGED <<pf_in, fvars, svars, vvars, hvars>>

\* lines 90, 104: _validate_sub_epoch_summaries on a received proof whose
\* sub_epochs are not empty (lines 88, 99)
ValidateSummaries ==
    /\ pf_in.op = "validate" /\ pf_out = Idle
    /\ pf_out' = [stage |-> "validated", result |-> ValidateSubEpochSummaries(pf_in.wp)]
    /\ UNCHANGED <<pf_in, fvars, svars, vvars, hvars>>

\* lines 829-838: validate_sub_epoch on the segments of one group, one of
\* them drawn as the sampled one
ValidateGroup ==
    /\ pf_in.op = "group" /\ pf_out = Idle
    /\ pf_in.sampled_seg_index < Len(pf_in.segments)
    /\ pf_out' = [stage |-> "group",
                  result |-> ValidateSubEpoch(pf_in.sampled_seg_index, pf_in.segments,
                                              pf_in.sub_epoch_n, pf_in.summaries)]
    /\ UNCHANGED <<pf_in, fvars, svars, vvars, hvars>>

\* lines 757-760: _map_sub_epoch_summaries on the sub_epochs of a proof,
\* which are not empty there (lines 88, 99)
MapWeights ==
    /\ pf_in.op = "weights" /\ pf_out = Idle
    /\ pf_out' = [stage |-> "weighed", result |-> MapSubEpochSummaries(pf_in.data)]
    /\ UNCHANGED <<pf_in, fvars, svars, vvars, hvars>>

\* lines 877-888: validate_sub_epoch calls _validate_segment on the segment
\* at position idx of its group, with prev_ses for the first segment only
ValidateDrawnSegment ==
    /\ pf_in.op = "segment" /\ pf_out = Idle
    /\ pf_out' = [stage |-> "segment",
                  result |-> ValidateSegment(pf_in.segment, SUB_SLOT_ITERS_STARTING,
                                             IF pf_in.idx = 0 THEN pf_in.prev_ses ELSE NoneV,
                                             pf_in.sampled, <<"cc", 0>>, Some(<<"icc", 0>>),
                                             IF pf_in.idx = 0 THEN 0 ELSE 1)]
    /\ UNCHANGED <<pf_in, fvars, svars, vvars, hvars>>

\* lines 877-909, the second turn of the loop: after the first segment of a
\* group passed _validate_segment and the ratio check, the segment after it
\* is validated with what the first returned
ValidateFollowing ==
    /\ pf_out # Idle /\ pf_out.stage = "segment" /\ pf_out.result.kind = "ok"
    /\ pf_in.op = "segment" /\ pf_in.idx = 0
    /\ \E shape \in FollowingShapes :
          LET res == pf_out.result
              curr_ssi == IF ~IsNone(pf_in.prev_ses)
                             /\ ~IsNone(Get(pf_in.prev_ses).new_sub_slot_iters)
                          THEN Get(Get(pf_in.prev_ses).new_sub_slot_iters)
                          ELSE SUB_SLOT_ITERS_STARTING
              passed == PrevChallengeIpIters(res.slot_after, res.ip_iters)
          IN  pf_out' =
                 [stage |-> "following", first |-> res, shape |-> shape, curr_ssi |-> curr_ssi,
                  result |->
                      IF res.slots = 0 \/ res.ip_iters = 0 THEN Raise("ZeroDivisionError")
                      ELSE IF res.slot_iters < WEIGHT_PROOF_THRESHOLD * res.ip_iters * res.slots
                           THEN [kind |-> "ok", value |-> FALSE]
                      ELSE ValidateSegment(FollowingSegment(shape), curr_ssi, NoneV, FALSE,
                                           res.cc, res.icc, passed)]
    /\ UNCHANGED <<pf_in, fvars, svars, vvars, hvars>>

\* lines 1195-1197 and 1296-1300: the signage point of the block at an index
\* above 0 has its VDF input looked up among the entries before it
LookUpVdfInfo ==
    /\ pf_in.op = "vdf_info" /\ pf_out = Idle
    /\ \E idx \in 1..(Len(pf_in.sub_slots) - 1) :
          /\ ~IsEndOfSlot(pf_in.sub_slots[idx + 1])
          /\ pf_out' = [stage |-> "vdf_info", sub_slot_idx |-> idx,
                        result |-> SubSlotDataVdfInfo(idx, pf_in.sub_slots, pf_in.is_overflow,
                                                      pf_in.sp_total_iters, 1)]
    /\ UNCHANGED <<pf_in, fvars, svars, vvars, hvars>>

\* lines 218-225: the segments of a sub-epoch are built from the blocks
\* between the two summary blocks
WalkStretch ==
    /\ pf_in.op = "stretch" /\ pf_out = Idle
    /\ pf_out' = [stage |-> "walked",
                  result |-> CreateSegmentsOfStretch(pf_in.bs, pf_in.sub_epoch_n)]
    /\ UNCHANGED <<pf_in, fvars, svars, vvars, hvars>>

\* The segment with the proofs of every entry after its first challenge
\* entry replaced by proofs that do not verify
RECURSIVE BadTailLoop(_, _, _)
BadTailLoop(ssds, i, after_challenge) ==
    IF i > Len(ssds) THEN <<>>
    ELSE LET d == ssds[i]
             bad(p) == IF IsNone(p) THEN p ELSE Some("bad")
             new_slot == IF after_challenge
                         THEN [d EXCEPT !.cc_signage_point = bad(@),
                                        !.cc_infusion_point = bad(@),
                                        !.cc_slot_end = bad(@),
                                        !.icc_infusion_point = bad(@),
                                        !.icc_slot_end = bad(@)]
                         ELSE d
         IN  <<new_slot>> \o BadTailLoop(ssds, i + 1, after_challenge \/ IsChallenge(d))

\* lines 877-888 for a segment that is not the sampled one, as built and as
\* compress_segment (lines 716-741) leaves it; the proofs after the challenge
\* entry are as drawn or such that they do not verify
ValidateCompressed ==
    /\ pf_in.op = "segment" /\ pf_out = Idle
    /\ ~pf_in.sampled
    /\ \E bad_tail \in BOOLEAN :
          LET segment == IF bad_tail
                         THEN [pf_in.segment EXCEPT
                                  !.sub_slot_data = BadTailLoop(@, 1, FALSE)]
                         ELSE pf_in.segment
              prev_ses == IF pf_in.idx = 0 THEN pf_in.prev_ses ELSE NoneV
              pip == IF pf_in.idx = 0 THEN 0 ELSE 1
          IN  pf_out' = [stage |-> "both", bad_tail |-> bad_tail, segment |-> segment,
                         full |-> ValidateSegment(segment, SUB_SLOT_ITERS_STARTING, prev_ses,
                                                  FALSE, <<"cc", 0>>, Some(<<"icc", 0>>), pip),
                         compressed |-> ValidateSegment(CompressSegment(segment),
                                                        SUB_SLOT_ITERS_STARTING, prev_ses,
                                                        FALSE, <<"cc", 0>>, Some(<<"icc", 0>>),
                                                        pip)]
    /\ UNCHANGED <<pf_in, fvars, svars, vvars, hvars>>

\* A compression that writes its result into the list it was given
CompressInPlace(heap, ref, full_segment_index) ==
    [heap EXCEPT ![ref] = CompressSegments(full_segment_index, heap[ref])]

\* lines 704-741 as writes to the objects that exist when compress_segments
\* is called: it appends to the new list compressed_segments and to the new
\* comp_seg.sub_slot_data, and dataclasses.replace makes a new record, so the
\* list at ref and what it holds stay as they are
HeapAfterCompress(heap, ref, full_segment_index) == heap

\* lines 198-232 with the segment store: heap holds the segment lists made so
\* far, store the list kept under each sub-epoch's ses_block.header_hash
\* (blockchain.persist_sub_epoch_challenge_segments_v2 keeps the list it is
\* given, get_sub_epoch_challenge_segments_v2 returns it)
RECURSIVE StoredSampleLoop(_, _, _, _, _, _, _)
StoredSampleLoop(ch, tip_height, seed, weight_to_check, sub_epoch_n, prev_weight, b) ==
    IF sub_epoch_n >= ch.n \/ ChainSesHeight(ch, sub_epoch_n) > tip_height THEN b
    ELSE IF CapReached(b.sample_n) THEN b
    ELSE
    LET ses_weight == ChainWeight(ch, ChainSesHeight(ch, sub_epoch_n))
        stored == b.store[sub_epoch_n + 1]
        built == IsNone(stored)
        heap1 == IF built THEN Append(b.heap, CreateSubEpochSegments(ch, sub_epoch_n))
                 ELSE b.heap
        ref == IF built THEN Len(heap1) ELSE Get(stored)
        store1 == IF built THEN [b.store EXCEPT ![sub_epoch_n + 1] = Some(ref)] ELSE b.store
        sampled_seg_index == Choice(seed, b.pos, Len(heap1[ref]))
    IN  IF SampleSubEpoch(prev_weight, ses_weight, weight_to_check)
        THEN StoredSampleLoop(ch, tip_height, seed, weight_to_check, sub_epoch_n + 1,
                 ses_weight,
                 [sample_n |-> b.sample_n + 1, pos |-> b.pos + 1,
                  segments |-> b.segments \o CompressSegments(sampled_seg_index, heap1[ref]),
                  picks |-> Append(b.picks, [sub_epoch_n |-> sub_epoch_n,
                                             index |-> sampled_seg_index,
                                             built |-> built]),
                  store |-> store1,
                  heap |-> HeapAfterCompress(heap1, ref, sampled_seg_index)])
        ELSE StoredSampleLoop(ch, tip_height, seed, weight_to_check, sub_epoch_n + 1,
                 ses_weight, b)

\* lines 164-237 at the peak of a chain, with the store as it stands
CreateProofWithStore(ch, seed, store, heap) ==
    LET summary_heights == GetSesHeights(ch)
        l == GetLastLWeight(summary_heights, ch.peak)
        last_weight == ChainWeight(ch, summary_heights[Get(l).last + 1])
        prev_prev_weight == ChainWeight(ch, summary_heights[Get(l).prev_prev + 1])
        wtc == GetWeightsForSampling(seed, last_weight, last_weight - prev_prev_weight)
        none == [kind |-> "None", store |-> store, heap |-> heap, picks |-> <<>>,
                 segments |-> <<>>]
    IN  IF IsNone(l) THEN none
        ELSE IF wtc.kind # "ok" THEN [none EXCEPT !.kind = wtc.kind]
        ELSE LET b == StoredSampleLoop(ch, ch.peak, seed, wtc.w, 0, ChainWeight(ch, 0),
                          [sample_n |-> 0, pos |-> wtc.pos, segments |-> <<>>,
                           picks |-> <<>>, store |-> store, heap |-> heap])
             IN  [kind |-> "ok", store |-> b.store, heap |-> b.heap, picks |-> b.picks,
                  segments |-> b.segments]

\* One more get_proof_of_weight for the peak, with a seed not used before on
\* this chain
BuildStored ==
    /\ pf_in.op = "store"
    /\ IF pf_out = Idle THEN TRUE ELSE pf_out.stage = "stored"
    /\ LET before == IF pf_out = Idle
                     THEN [store |-> [j \in 1..pf_in.ch.n |-> NoneV], heap |-> <<>>,
                           builds |-> <<>>]
                     ELSE pf_out
       IN  \E seed \in Seeds \ {before.builds[k].seed : k \in 1..Len(before.builds)} :
              LET r == CreateProofWithStore(pf_in.ch, seed, before.store, before.heap)
              IN  pf_out' = [stage |-> "stored", store |-> r.store, heap |-> r.heap,
                             builds |-> Append(before.builds,
                                               [seed |-> seed, kind |-> r.kind,
                                                picks |-> r.picks,
                                                segments |-> r.segments])]
    /\ UNCHANGED <<pf_in, fvars, svars, vvars, hvars>>

RecordsNext ==
    \/ BuildStored \/ ValidateCompressed
    \/ MapRoundTrip \/ BuildSegments \/ CompressBuilt \/ CompressDrawn \/ CollectRecent
    \/ MapWeights \/ ValidateSummaries \/ ValidateGroup \/ ValidateDrawnSegment
    \/ ValidateFollowing \/ LookUpVdfInfo \/ WalkStretch

SpecRecords == RecordsInit /\ [][RecordsNext]_vars

\* C17: for a sequence of summaries linked from GENESIS_CHALLENGE through
\* prev_subepoch_summary_hash, _map_sub_epoch_summaries applied to their
\* _create_sub_epoch_data images returns exactly that sequence
C17_SummariesRoundTrip ==
    (pf_out # Idle /\ pf_out.stage = "mapped" /\ Linked(pf_in.summaries)) =>
        pf_out.result.summaries = pf_in.summaries

\* A linked sequence of two summaries, the first with a new difficulty and
\* no new sub slot iterations, has been mapped back
C17_Witness ==
    /\ pf_out # Idle /\ pf_out.stage = "mapped" /\ Linked(pf_in.summaries)
    /\ Len(pf_in.summaries) = 2
    /\ ~IsNone(pf_in.summaries[1].new_difficulty)
    /\ IsNone(pf_in.summaries[1].new_sub_slot_iters)
    /\ Len(pf_out.result.summaries) = 2

\* The four boundary fields of a segment that are set
BoundaryFieldsSet(segment) ==
    {f \in {"rc_slot_end_info", "cc_slot_end_info", "icc_sub_slot_hash", "prev_icc_ip_iters"} :
        ~IsNone(segment[f])}

\* C18: in every segment list the builder produces for a sub-epoch the four
\* boundary fields are None on every segment but the first, and on all
\* segments when sub_epoch_n is 0; on the first segment of a sub-epoch
\* n > 0 rc_slot_end_info, cc_slot_end_info and icc_sub_slot_hash are set
C18_BoundaryOnFirstOnly ==
    (pf_out # Idle /\ pf_out.stage = "built") =>
        \A i \in 1..Len(pf_out.segments) :
            IF i = 1 /\ pf_in.sub_epoch_n > 0
            THEN {"rc_slot_end_info", "cc_slot_end_info", "icc_sub_slot_hash"}
                     \subseteq BoundaryFieldsSet(pf_out.segments[i])
            ELSE BoundaryFieldsSet(pf_out.segments[i]) = {}

\* The builder has made two segments for a sub-epoch n > 0
C18_Witness ==
    /\ pf_out # Idle /\ pf_out.stage = "built"
    /\ pf_in.sub_epoch_n > 0 /\ Len(pf_out.segments) = 2
    /\ BoundaryFieldsSet(pf_out.segments[1]) # {}
    /\ BoundaryFieldsSet(pf_out.segments[2]) = {}

\* The fields handle_block_vdfs fills and handle_finished_slots leaves None
BlockFields ==
    {"proof_of_space", "cc_signage_point", "cc_infusion_point", "signage_point_index",
     "cc_sp_vdf_output", "cc_ip_vdf_output", "icc_infusion_point", "icc_ip_vdf_output",
     "cc_sp_signature", "ip_iters", "total_iters"}

\* The fields handle_finished_slots fills and handle_block_vdfs leaves None
SlotEndFields == {"cc_slot_end", "cc_slot_end_output", "icc_slot_end", "icc_slot_end_output"}

\* A block record: some block field is set and no slot-end field is
BlockKind(ssd) ==
    /\ \E f \in BlockFields : ~IsNone(ssd[f])
    /\ \A f \in SlotEndFields : IsNone(ssd[f])

\* An end-of-slot record: some slot-end field is set and no block field is
EndOfSlotKind(ssd) ==
    /\ \E f \in SlotEndFields : ~IsNone(ssd[f])
    /\ \A f \in BlockFields : IsNone(ssd[f])

\* C19: every record of the segments the builder makes is a block record
\* with no slot-end field set or an end-of-slot record with no block field
\* set, and compress_segment leaves every record of the kind it was
C19_TwoKinds ==
    /\ (pf_out # Idle /\ pf_out.stage \in {"built", "compressed"}) =>
           \A i \in 1..Len(pf_out.segments) :
               \A e \in 1..Len(pf_out.segments[i].sub_slot_data) :
                   LET ssd == pf_out.segments[i].sub_slot_data[e]
                   IN  BlockKind(ssd) # EndOfSlotKind(ssd)
    /\ (pf_out # Idle /\ pf_out.stage = "compressed") =>
           \A i \in 1..Len(pf_out.compressed) :
               /\ Len(pf_out.compressed[i].sub_slot_data) = Len(pf_out.segments[i].sub_slot_data)
               /\ \A e \in 1..Len(pf_out.compressed[i].sub_slot_data) :
                      LET ssd == pf_out.segments[i].sub_slot_data[e]
                          new_slot == pf_out.compressed[i].sub_slot_data[e]
                      IN  /\ BlockKind(new_slot) # EndOfSlotKind(new_slot)
                          /\ BlockKind(new_slot) <=> BlockKind(ssd)

\* A segment has been compressed in which an end-of-slot record without an
\* infused challenge chain and a block record both lost their proofs
C19_Witness ==
    /\ pf_out # Idle /\ pf_out.stage = "compressed"
    /\ \E i \in 1..Len(pf_out.compressed) :
       \E e, b \in 1..Len(pf_out.compressed[i].sub_slot_data) :
           /\ EndOfSlotKind(pf_out.segments[i].sub_slot_data[e])
           /\ IsNone(pf_out.segments[i].sub_slot_data[e].icc_slot_end_output)
           /\ pf_out.compressed[i].sub_slot_data[e] # pf_out.segments[i].sub_slot_data[e]
           /\ BlockKind(pf_out.segments[i].sub_slot_data[b])
           /\ pf_out.compressed[i].sub_slot_data[b] # pf_out.segments[i].sub_slot_data[b]

\* 1-based position of the first challenge record of a list, or one past its
\* end when it has none
ChallengePosition(sub_slot_data) ==
    LET at == {e \in 1..Len(sub_slot_data) : IsChallenge(sub_slot_data[e])}
    IN  IF at = {} THEN Len(sub_slot_data) + 1
        ELSE CHOOSE e \in at : \A x \in at : e <= x

\* lines 730-737: the record with its five VDF proofs removed
WithoutProofs(ssd) == [f \in DOMAIN ssd |-> IF f \in VdfProofFields THEN NoneV ELSE ssd[f]]

\* C20: compress_segments(i, segments) returns a list of the same length
\* and order in which segment i is unchanged and every other segment has
\* the five VDF proofs set to None in every record after its challenge
\* record, every record up to the challenge record and every other field of
\* the records and of the segment being kept
C20_CompressFrame ==
    (pf_out # Idle /\ pf_out.stage = "compressed") =>
        /\ Len(pf_out.compressed) = Len(pf_out.segments)
        /\ \A i \in 1..Len(pf_out.segments) :
               LET segment == pf_out.segments[i]
                   comp_seg == pf_out.compressed[i]
                   c == ChallengePosition(segment.sub_slot_data)
               IN  IF i - 1 = pf_out.idx THEN comp_seg = segment
                   ELSE /\ [comp_seg EXCEPT !.sub_slot_data = <<>>]
                               = [segment EXCEPT !.sub_slot_data = <<>>]
                        /\ Len(comp_seg.sub_slot_data) = Len(segment.sub_slot_data)
                        /\ \A e \in 1..Len(segment.sub_slot_data) :
                               comp_seg.sub_slot_data[e] =
                                   IF e <= c THEN segment.sub_slot_data[e]
                                   ELSE WithoutProofs(segment.sub_slot_data[e])

\* Two segments compressed around the second: the first lost proofs after
\* its challenge record and kept a proof before it, the second is as it was
C20_Witness ==
    /\ pf_out # Idle /\ pf_out.stage = "compressed"
    /\ pf_out.idx = 1 /\ Len(pf_out.segments) = 2
    /\ pf_out.compressed[1] # pf_out.segments[1]
    /\ pf_out.compressed[2] = pf_out.segments[2]
    /\ Uncompressed(pf_out.segments[2])
    /\ ChallengePosition(pf_out.segments[1].sub_slot_data) > 1
    /\ ~IsNone(pf_out.compressed[1].sub_slot_data[1].cc_slot_end)

\* Positions of the blocks of a recent chain that include a summary
SummaryBlocks(recent_chain) ==
    {i \in 1..Len(recent_chain) : ~IsNone(recent_chain[i].ses_hash)}

\* C21: the recent chain _get_recent_chain returns has contiguous ascending
\* heights, ends at tip_height, holds exactly two summary-including blocks,
\* and starts with the block immediately before the earlier of the two, which
\* is the lowest height fetched
C21_RecentChainShape ==
    (pf_out # Idle /\ pf_out.stage = "recent" /\ pf_out.awaited) =>
        LET rc == pf_out.recent_chain IN
        /\ Len(rc) >= 1
        /\ rc[Len(rc)].height = pf_in.tip_height
        /\ \A i \in 1..(Len(rc) - 1) : rc[i + 1].height = rc[i].height + 1
        /\ Cardinality(SummaryBlocks(rc)) = 2
        /\ 2 \in SummaryBlocks(rc)
        /\ rc[1].height = RecentChainMin(pf_in.ch, pf_in.tip_height)
        /\ \A i \in 1..Len(rc) : rc[i] = ChainHeader(pf_in.ch, rc[i].height)

\* a tip that is itself a late summary block, on a chain of four summaries
C21_Witness ==
    /\ pf_out # Idle /\ pf_out.stage = "recent" /\ pf_out.awaited
    /\ pf_in.ch.n = 4 /\ pf_in.tip_height = ChainSesHeight(pf_in.ch, 2)
    /\ pf_in.ch.ov[3] = 1
    /\ ~IsNone(pf_out.recent_chain[Len(pf_out.recent_chain)].ses_hash)

\* C22: once a failed segment group has been collected, validate_weight_proof
\* can return (False, 0, []) at once: its return does not wait for the worker
\* tasks still outstanding
C22_ReturnsWithoutWaiting ==
    v_pc = "exit_false" => ENABLED ExecutorExit

\* difficulty[i]: DIFFICULTY_STARTING, replaced by the new_difficulty of the
\* last record before the i-th (0-based) that announces one
RECURSIVE DifficultyOf(_, _)
DifficultyOf(data, i) ==
    IF i = 0 THEN DIFFICULTY_STARTING
    ELSE IF ~IsNone(data[i].new_difficulty) THEN Get(data[i].new_difficulty)
    ELSE DifficultyOf(data, i - 1)

\* weight[i] by the recurrence, weight[0] = 0
RECURSIVE WeightOf(_, _)
WeightOf(data, i) ==
    IF i = 0 THEN 0
    ELSE WeightOf(data, i - 1)
           + DifficultyOf(data, i - 1)
               * (SUB_EPOCH_BLOCKS + data[i + 1].num_blocks_overflow
                  - data[i].num_blocks_overflow)

\* C23: _map_sub_epoch_summaries returns the cumulative weight of the
\* recurrence weight[i+1] = weight[i] + difficulty[i] * (SUB_EPOCH_BLOCKS +
\* overflow[i+1] - overflow[i]), the difficulty of a sub-epoch being the one
\* in force before its own summary replaces it; sub_epoch_weight_list has one
\* entry per summary, entry i being weight[i] + difficulty[i]
C23_CumulativeWeight ==
    (pf_out # Idle /\ pf_out.stage = "weighed") =>
        LET data == pf_in.data
            n == Len(data)
            r == pf_out.result
        IN  /\ r.total = WeightOf(data, n - 1)
            /\ Len(r.summaries) = n
            /\ Len(r.list) = n
            /\ \A i \in 0..(n - 2) : r.list[i + 1] = WeightOf(data, i) + DifficultyOf(data, i)

\* three records, the second announcing a difficulty that the third
\* sub-epoch does not count with yet
C23_Witness ==
    /\ pf_out # Idle /\ pf_out.stage = "weighed"
    /\ Len(pf_in.data) = 3
    /\ pf_in.data[1].new_difficulty = Some(2)
    /\ pf_in.data[2].new_difficulty = Some(3)
    /\ pf_in.data[1].num_blocks_overflow = 1 /\ pf_in.data[2].num_blocks_overflow = 0
    /\ pf_in.data[3].num_blocks_overflow = 1
    /\ pf_out.result.total = 3 + 2 * 5

\* C24: _validate_sub_epoch_summaries returns summaries only when
\* _get_last_ses found a summary hash in the recent chain and the hash of the
\* last summary rebuilt from sub_epochs equals it; a recent chain that holds
\* no summary hash is rejected with (None, None)
C24_LastHashMatches ==
    (pf_out # Idle /\ pf_out.stage = "validated") =>
        LET wp == pf_in.wp
            m == MapSubEpochSummaries(wp.sub_epochs)
            last == GetLastSes(wp.recent_chain_data)
        IN  /\ pf_out.result.kind \in {"ok", "None"}
            /\ pf_out.result.kind = "ok" =>
                   /\ ~IsNone(last.hash)
                   /\ SesHash(m.summaries[Len(m.summaries)]) = Get(last.hash)
                   /\ pf_out.result.summaries = m.summaries
            /\ SummaryBlocks(wp.recent_chain_data) = {} => pf_out.result.kind = "None"
            /\ (~IsNone(last.hash)
                  /\ SesHash(m.summaries[Len(m.summaries)]) # Get(last.hash)) =>
                   pf_out.result.kind = "None"

\* a proof as built is accepted
C24_Witness ==
    /\ pf_out # Idle /\ pf_out.stage = "validated"
    /\ pf_in.mut = "none" /\ pf_out.result.kind = "ok"
    /\ Len(pf_out.result.summaries) = 4

\* The counters of validate_sub_epoch after the first k segments of a group:
\* one block per segment, the ip_iters of its challenge block, and one slot
\* of curr_ssi iterations per end-of-slot entry
CountersAfter(grp, summaries, k) ==
    LET slots(j) == Cardinality({e \in 1..Len(grp.segments[j].sub_slot_data) :
                                    IsEndOfSlot(grp.segments[j].sub_slot_data[e])})
        ip(j) == LET c == {e \in 1..Len(grp.segments[j].sub_slot_data) :
                              IsChallenge(grp.segments[j].sub_slot_data[e])}
                 IN  IF c = {} THEN 0
                     ELSE Get(grp.segments[j].sub_slot_data[CHOOSE e \in c : TRUE].ip_iters)
        sum[j \in 0..k] == IF j = 0 THEN [slots |-> 0, ip |-> 0]
                           ELSE [slots |-> sum[j - 1].slots + slots(j),
                                 ip |-> sum[j - 1].ip + ip(j)]
    IN  [total_blocks |-> k, total_slots |-> sum[k].slots, total_ip_iters |-> sum[k].ip,
         total_slot_iters |-> sum[k].slots * GetCurrSsi(grp.n, summaries)]

\* avg_slot_iters / avg_ip_iters < WEIGHT_PROOF_THRESHOLD after k segments
RatioBelow(grp, summaries, k) ==
    LET c == CountersAfter(grp, summaries, k)
    IN  /\ c.total_slots > 0 /\ c.total_ip_iters > 0
        /\ c.total_slot_iters * c.total_blocks
               < WEIGHT_PROOF_THRESHOLD * c.total_ip_iters * c.total_slots

C26_RewardChainHashChecked ==
    (pf_out # Idle /\ pf_out.stage = "group") =>
        LET n == pf_in.sub_epoch_n
            h == InitialHashes(n, pf_in.segments, pf_in.summaries,
                               GetCurrSsi(n, pf_in.summaries))
            ses == pf_in.summaries[n + 1]
            accepted == pf_out.result = [kind |-> "ok", value |-> TRUE]
        IN  /\ n = 0 => h = [kind |-> "ok", rc |-> GENESIS_CHALLENGE,
                              cc |-> GENESIS_CHALLENGE, icc |-> NoneV]
            /\ (n > 0 /\ h.kind = "ok") =>
                   /\ h.cc = Get(pf_in.segments[1].cc_slot_end_info)
                   /\ h.icc = pf_in.segments[1].icc_sub_slot_hash
            /\ accepted => (h.kind = "ok" /\ ses.reward_chain_hash = h.rc)
            /\ (h.kind = "ok" /\ ses.reward_chain_hash # h.rc) =>
                   pf_out.result = [kind |-> "ok", value |-> FALSE]
            /\ (n > 0 /\ pf_in.mut # "none") => ~accepted
            /\ (n = 0 /\ pf_in.mut = "forged_summary") => ~accepted

\* a genesis group whose segments carry no boundary field is accepted
C26_Witness ==
    /\ pf_out # Idle /\ pf_out.stage = "group"
    /\ pf_in.sub_epoch_n = 0 /\ pf_in.mut = "none"
    /\ IsNone(pf_in.segments[1].cc_slot_end_info)
    /\ pf_out.result = [kind |-> "ok", value |-> TRUE]

\* The group task that validates the segment whose entry was tampered with
TamperedGroup(g) ==
    v_sum.groups[g].n = v_wp.wp.sub_epoch_segments[v_wp.at[1]].sub_epoch_n

\* C27: an end-of-slot entry of the sampled segment whose cc or icc
\* end-of-slot VDF is invalid makes the validation of its group fail,
\* wherever the entry stands in the segment
C27_EveryEosVerified ==
    \A g \in 1..Len(v_task) :
        (/\ v_task[g].kind # "running"
         /\ v_wp.mut \in {"cc_slot_end", "icc_slot_end"}
         /\ TamperedGroup(g)) =>
            v_task[g] = [kind |-> "ok", value |-> FALSE]


\* The deficit counter at the end-of-slot entry at position i of a shape, as
\* the specification words it: MIN_BLOCKS_PER_CHALLENGE_BLOCK - 1 at the last
\* challenge entry before i, less one for every entry from there on that is
\* no slot end and comes after a challenge entry; 0 before any challenge
DeficitAt(shape, i) ==
    LET chals == {j \in 1..(i - 1) : shape[j] \in {"c", "o"}}
        c == CHOOSE j \in chals : \A k \in chals : k <= j
    IN  IF chals = {} THEN 0
        ELSE (MIN_BLOCKS_PER_CHALLENGE_BLOCK - 1)
                 - Cardinality({j \in c..(i - 1) :
                                    /\ shape[j] # "e"
                                    /\ \E k \in chals : k < j})

\* The ChallengeChainSubSlot made at a slot end, taken out of its hash
SubSlotOf(end) == end.cc[2]

\* C28: at every end-of-slot entry of a validated segment, the icc hash
\* field of the new ChallengeChainSubSlot holds the icc hash when the deficit
\* counter is 0 and is empty otherwise, the counter being set to
\* MIN_BLOCKS_PER_CHALLENGE_BLOCK - 1 at each challenge entry and decremented
\* for every entry after the challenge that is no slot end.
C28_IccHashIffDeficitZero ==
    (pf_out # Idle /\ pf_out.stage = "segment" /\ pf_out.result.kind = "ok") =>
        \A e \in 1..Len(pf_out.result.ends) :
            LET end == pf_out.result.ends[e]
            IN  /\ ~IsNone(end.icc)
                /\ SubSlotOf(end)[4] = IF DeficitAt(pf_in.shape, end.at) = 0
                                       THEN end.icc ELSE NoneV

\* A validated segment with a slot end before the challenge (counter at its
\* start value 0) and one after the challenge and one more block (counter
\* MIN_BLOCKS_PER_CHALLENGE_BLOCK - 2 = 0): both sub slots carry the icc hash
C28_Witness ==
    /\ pf_out # Idle /\ pf_out.stage = "segment" /\ pf_out.result.kind = "ok"
    /\ pf_in.shape = <<"e", "c", "b", "e">>
    /\ Len(pf_out.result.ends) = 2
    /\ SubSlotOf(pf_out.result.ends[1])[4] # NoneV
    /\ SubSlotOf(pf_out.result.ends[2])[4] = pf_out.result.ends[2].icc


\* The summary fields of the ChallengeChainSubSlot made at a slot end
SesFieldsOf(end) == <<SubSlotOf(end)[5], SubSlotOf(end)[6], SubSlotOf(end)[7]>>

\* The fields as the summary of the sub-epoch before fills them
FilledFrom(prev_ses) ==
    <<Some(SesHash(Get(prev_ses))), Get(prev_ses).new_sub_slot_iters,
      Get(prev_ses).new_difficulty>>

\* C29 as stated: the summary fields are filled at a slot end iff it is the
\* first slot end of the segment and the sub-epoch has a summary attached.
C29_FirstSlotBoundary ==
    (pf_out # Idle /\ pf_out.stage = "segment" /\ pf_out.result.kind = "ok") =>
        \A e \in 1..Len(pf_out.result.ends) :
            SesFieldsOf(pf_out.result.ends[e]) =
                IF e = 1 /\ ~IsNone(pf_in.prev_ses) THEN FilledFrom(pf_in.prev_ses)
                ELSE <<NoneV, NoneV, NoneV>>

\* C29, amended: the summary fields are filled at a slot end iff it is the
\* first entry of the segment, the segment is the first of its group and the
\* group is of a sub-epoch that has a sub-epoch before it; they are then the
\* hash, new_sub_slot_iters and new_difficulty of that sub-epoch's summary.
C29_FirstEntryOfFirstSegment ==
    (pf_out # Idle /\ pf_out.stage = "segment" /\ pf_out.result.kind = "ok") =>
        \A e \in 1..Len(pf_out.result.ends) :
            SesFieldsOf(pf_out.result.ends[e]) =
                IF pf_out.result.ends[e].at = 1 /\ pf_in.idx = 0 /\ ~IsNone(pf_in.prev_ses)
                THEN FilledFrom(pf_in.prev_ses)
                ELSE <<NoneV, NoneV, NoneV>>

\* The first segment of a later sub-epoch begins with two slot ends: the
\* first carries the summary fields, the second does not
C29_Witness ==
    /\ pf_out # Idle /\ pf_out.stage = "segment" /\ pf_out.result.kind = "ok"
    /\ pf_in.shape = <<"e", "e", "c">> /\ pf_in.idx = 0 /\ ~IsNone(pf_in.prev_ses)
    /\ SesFieldsOf(pf_out.result.ends[1]) = FilledFrom(pf_in.prev_ses)
    /\ SesFieldsOf(pf_out.result.ends[2]) = <<NoneV, NoneV, NoneV>>


\* The slot ends of a validated segment before position p, in order
EndsBefore(result, p) == SelectSeq(result.ends, LAMBDA end : end.at < p)

\* The challenge in force at position p: the hash of the sub slot made at
\* the last slot end before p, or the challenge the segment started with
ChallengeInForce(result, p) ==
    LET es == EndsBefore(result, p)
    IN  IF es = <<>> THEN <<"cc", 0>> ELSE es[Len(es)].cc

\* The challenge that was in force before the last slot end before p: the
\* challenge of the end-of-slot VDF inside the sub slot made there
ChallengeBeforeLastEnd(result, p) ==
    LET es == EndsBefore(result, p) IN SubSlotOf(es[Len(es)])[1]

\* C30: at every challenge entry of a validated segment the infusion-point
\* VDF is checked against the current challenge; the signage-point VDF and,
\* when the segment is the sampled one, the proof of space are checked
\* against the challenge in force before the most recent slot end when the
\* block is an overflow block, and against the current challenge otherwise.
C30_OverflowUsesPreviousChallenge ==
    (pf_out # Idle /\ pf_out.stage = "segment" /\ pf_out.result.kind = "ok") =>
        \A b \in 1..Len(pf_out.result.blocks) :
            LET blk == pf_out.result.blocks[b]
                cur == ChallengeInForce(pf_out.result, blk.at)
                used == IF pf_in.shape[blk.at] = "o"
                        THEN ChallengeBeforeLastEnd(pf_out.result, blk.at)
                        ELSE cur
            IN  /\ pf_in.shape[blk.at] \in {"c", "o"}
                /\ pf_in.shape[blk.at] = "o" => EndsBefore(pf_out.result, blk.at) # <<>>
                /\ blk.ip = cur
                /\ blk.sp = Some(used)
                /\ blk.pospace = IF pf_in.sampled THEN Some(used) ELSE NoneV

\* A sampled segment with a challenge block in the first slot and an
\* overflow challenge block after two slot ends: the first uses the starting
\* challenge three times, the second the challenge of the slot between the
\* two slot ends for signage point and proof of space
C30_Witness ==
    /\ pf_out # Idle /\ pf_out.stage = "segment" /\ pf_out.result.kind = "ok"
    /\ pf_in.shape = <<"c", "e", "e", "o">> /\ pf_in.sampled
    /\ Len(pf_out.result.blocks) = 2
    /\ pf_out.result.blocks[1].sp = Some(<<"cc", 0>>)
    /\ pf_out.result.blocks[1].pospace = Some(<<"cc", 0>>)
    /\ pf_out.result.blocks[2].sp = Some(pf_out.result.ends[1].cc)
    /\ pf_out.result.blocks[2].pospace = Some(pf_out.result.ends[1].cc)
    /\ pf_out.result.blocks[2].ip = pf_out.result.ends[2].cc
    /\ pf_out.result.ends[1].cc # pf_out.result.ends[2].cc


\* Whether a shape has a slot end after a challenge entry
EndAfterChallenge(shape) ==
    \E i, j \in 1..Len(shape) : i < j /\ shape[i] \in {"c", "o"} /\ shape[j] = "e"

\* The ip_iters of the challenge block of a shape (every drawn block has 2)
ChallengeIpIters(shape) == IF \E i \in 1..Len(shape) : shape[i] \in {"c", "o"} THEN 2 ELSE 0

\* C31: _validate_segment reports slot_after_challenge = True iff the segment
\* has a slot end after its challenge entry; the segment after it is then
\* validated with prev_challenge_ip_iters = 0, and otherwise with the
\* ip_iters of the challenge block: the icc VDF of a slot end at its first
\* entry spans curr_ssi less that number of iterations.
C31_SlotAfterChallenge ==
    /\ (pf_out # Idle /\ pf_out.stage = "segment" /\ pf_out.result.kind = "ok") =>
           pf_out.result.slot_after = EndAfterChallenge(pf_in.shape)
    /\ (pf_out # Idle /\ pf_out.stage = "following" /\ pf_out.result.kind = "ok"
            /\ "value" \notin DOMAIN pf_out.result) =>
           LET passed == IF EndAfterChallenge(pf_in.shape) THEN 0
                         ELSE ChallengeIpIters(pf_in.shape)
           IN  /\ pf_out.shape[1] = "e" =>
                      pf_out.result.ends[1].icc[1][2][2] = pf_out.curr_ssi - passed
               /\ pf_out.shape[1] = "c" =>
                      pf_out.result.ip_iters = 2

\* Both cases: a first segment with a slot end only before the challenge
\* block hands on the block's ip_iters, one with a slot end after it hands
\* on 0
C31_Witness ==
    /\ pf_out # Idle /\ pf_out.stage = "following" /\ pf_out.result.kind = "ok"
    /\ "value" \notin DOMAIN pf_out.result
    /\ pf_in.shape = <<"e", "c", "b">> /\ pf_out.shape = <<"e", "c">>
    /\ ~pf_out.first.slot_after
    /\ pf_out.result.ends[1].icc[1][2][2] = pf_out.curr_ssi - 2


\* The positions the backward walk from sub_slot_idx visits before it has
\* counted its limit of slot ends
BeforeLimit(shape, sub_slot_idx, is_overflow) ==
    {p \in 1..sub_slot_idx :
        Cardinality({q \in p..sub_slot_idx : shape[q] = "e"}) < (IF is_overflow THEN 2 ELSE 1)}

\* The blocks among them whose total_iters (10 + position) is below, or not
\* above, sp_total_iters
BlocksBelow(shape, sub_slot_idx, is_overflow, sp_total_iters) ==
    {p \in BeforeLimit(shape, sub_slot_idx, is_overflow) :
        shape[p] = "b" /\ 10 + p < sp_total_iters}

BlocksNotAbove(shape, sub_slot_idx, is_overflow, sp_total_iters) ==
    {p \in BeforeLimit(shape, sub_slot_idx, is_overflow) :
        shape[p] = "b" /\ 10 + p <= sp_total_iters}

\* What the lookup answers when it takes the block at position p
TakenFrom(p) ==
    [kind |-> "ok", input |-> <<"ip", <<"x", p>>>>, iters |-> pf_in.sp_total_iters - (10 + p)]

LastOf(S) == CHOOSE p \in S : \A q \in S : q <= p

\* C32 as stated: the lookup returns the cc_ip output of the last block with
\* total_iters < sp_total_iters met before the limit of slot ends, with
\* sp_total_iters less that block's total_iters, and the default element
\* with sp_iters in every other case.
C32_LastBlockBelow ==
    (pf_out # Idle /\ pf_out.stage = "vdf_info") =>
        LET S == BlocksBelow(pf_in.shape, pf_out.sub_slot_idx, pf_in.is_overflow,
                             pf_in.sp_total_iters)
        IN  pf_out.result = IF S # {} THEN TakenFrom(LastOf(S))
                            ELSE [kind |-> "ok", input |-> DefaultElement, iters |-> 1]

\* C32, amended: the walk stops at the last block met before the limit
\* whose total_iters is not above sp_total_iters; the lookup returns that
\* block's cc_ip output and the difference when its total_iters is below
\* sp_total_iters, and the default element with sp_iters when they are
\* equal or there is no such block.
C32_LastBlockNotAbove ==
    (pf_out # Idle /\ pf_out.stage = "vdf_info") =>
        LET S == BlocksNotAbove(pf_in.shape, pf_out.sub_slot_idx, pf_in.is_overflow,
                                pf_in.sp_total_iters)
        IN  pf_out.result = IF S # {} /\ 10 + LastOf(S) < pf_in.sp_total_iters
                            THEN TakenFrom(LastOf(S))
                            ELSE [kind |-> "ok", input |-> DefaultElement, iters |-> 1]

\* An overflow signage point whose walk crosses one slot end and takes the
\* block before it, two blocks back
C32_Witness ==
    /\ pf_out # Idle /\ pf_out.stage = "vdf_info"
    /\ pf_in.shape = <<"b", "e", "b", "b">> /\ pf_in.is_overflow
    /\ pf_out.sub_slot_idx = 3 /\ pf_in.sp_total_iters = 12
    /\ pf_out.result = [kind |-> "ok", input |-> <<"ip", <<"x", 1>>>>, iters |-> 1]


\* The heights of the challenge blocks of a stretch below its last block,
\* in ascending order
ChallengeHeightsOf(bs) ==
    LET chals == SelectSeq(SubSeq(bs, 1, Len(bs) - 1), IsChallengeBlock)
    IN  [k \in 1..Len(chals) |-> chals[k].height]

\* The heights of the challenge entries of a segment, in entry order
ChallengeEntriesOf(seg) ==
    LET chals == SelectSeq(seg.sub_slot_data, IsChallenge)
    IN  [k \in 1..Len(chals) |-> Get(chals[k].cc_ip_vdf_output)[2][2]]

\* C34: __create_sub_epoch_segments ends, and its segments are one for each
\* challenge block with height in [se_start.height, ses_block.height), in
\* ascending order of height; the heights the walk stands at increase
\* strictly.
C34_OneSegmentPerChallengeBlock ==
    (pf_out # Idle /\ pf_out.stage = "walked") =>
        LET r == pf_out.result
            hs == ChallengeHeightsOf(pf_in.bs)
        IN  /\ r.kind = "ok"
            /\ Len(r.segments) = Len(hs)
            /\ \A k \in 1..Len(hs) : ChallengeEntriesOf(r.segments[k]) = <<hs[k]>>
            /\ \A i \in 1..(Len(r.visited) - 1) : r.visited[i] < r.visited[i + 1]

\* A stretch with two challenge blocks, the second not right after the slot
\* walk of the first ended: two segments, and the walk stepped over a block
\* that is no challenge block
C34_Witness ==
    /\ pf_out # Idle /\ pf_out.stage = "walked" /\ pf_out.result.kind = "ok"
    /\ Len(pf_out.result.segments) = 2
    /\ \E i \in 1..Len(pf_out.result.visited) :
           ~IsChallengeBlock(BlockAt(pf_in.bs, pf_out.result.visited[i]))


\* The heights of the blocks whose records a segment holds
BlockHeightsOf(seg) ==
    {Get(seg.sub_slot_data[j].cc_ip_vdf_output)[2][2] :
         j \in {i \in DOMAIN seg.sub_slot_data : ~IsEndOfSlot(seg.sub_slot_data[i])}}

\* The blocks above height h, up to height top, that are first in their
\* sub-slot: the walk crosses into a new sub-slot at each of them
CrossingsAfter(bs, h, top) ==
    {j \in DOMAIN bs : bs[j].height > h /\ bs[j].height <= top /\ FirstInSubSlot(bs[j])}

\* The slot of the block at height h ended in a blue-boxed bundle that the
\* walk crossed
EndedBlueBoxed(bs, h, top) ==
    LET js == CrossingsAfter(bs, h, top)
    IN  js # {} /\ bs[CHOOSE j \in js : \A i \in js : j <= i].blue

\* C33: in every segment the builder makes, the record of a block the walks
\* stood at (from the slot start to the last block of the slot-end walk, the
\* challenge block aside) is held exactly when the slot of that block did
\* not end in a blue-boxed bundle crossed by the same walk.
C33_BlueBoxRule ==
    (pf_out # Idle /\ pf_out.stage = "walked" /\ pf_out.result.kind = "ok") =>
        LET bs == pf_in.bs
            hs == ChallengeHeightsOf(bs)
        IN  \A k \in 1..Len(pf_out.result.segments) :
               LET held == BlockHeightsOf(pf_out.result.segments[k])
                   c == hs[k]
                   top == CHOOSE x \in held : \A y \in held : y <= x
               IN  \A h \in SlotStart(bs, c)..top :
                      h # c => (h \in held <=>
                                   ~EndedBlueBoxed(bs, h, IF h < c THEN c ELSE top))


\* The required indices the walk of lines 1615-1620 strikes from the set
CountedCovered(ns, required) == required \ CoverageLoop(ns, 1, -1, required)

\* The keys of map_segments_by_sub_epoch for segments with these sub_epoch_n
KeysOfMap(ns) ==
    LET groups == MapSegmentsBySubEpoch([i \in 1..Len(ns) |-> [sub_epoch_n |-> ns[i]]])
    IN  {groups[g].n : g \in 1..Len(groups)}

\* C35: every sub-epoch index that validate_sub_epoch_sampling counts as
\* covered by the segments of a proof is a key of map_segments_by_sub_epoch
\* for the same segments, in whatever order their sub_epoch_n come.
C35_CoveredAreKeys ==
    (sm_out.stage = "replayed" /\ sm_out.kind = "ok") =>
        CountedCovered(sm_out.ns, sm_out.required) \subseteq KeysOfMap(sm_out.ns)


\* C36: get_fork_point returns a height for every received list, a list
\* shorter than the local ses_heights whose summaries all match included; it
\* never reads received_summaries past its end.
C36_ReturnsHeight ==
    fk_out.kind \notin {"pending", "idle"} => fk_out.kind = "ok"


\* C37: the ratio check of validate_sub_epoch (lines 901-909) divides by
\* counts that are above 0, so it yields True or False for every group of
\* segments, a group whose first segment holds no end-of-slot entry included.
C37_RatioDefined ==
    (pf_out # Idle /\ pf_out.stage = "group") =>
        pf_out.result.kind # "ZeroDivisionError"


\* The segments a proof holds for the sub-epoch of its k-th pick
SegmentsOfPick(build, k) ==
    SelectSeq(build.segments, LAMBDA s : s.sub_epoch_n = build.picks[k].sub_epoch_n)

\* C38: after any sequence of get_proof_of_weight calls the list stored for
\* a sub-epoch is the list of fully populated segments the builder made for
\* it, and each proof holds, for each sub-epoch it samples, that list
\* compressed around the segment its own seed picked, that segment in full.
C38_StoredSegmentsStayFull ==
    (pf_out # Idle /\ pf_out.stage = "stored") =>
        /\ \A j \in 1..pf_in.ch.n :
              ~IsNone(pf_out.store[j]) =>
                  pf_out.heap[Get(pf_out.store[j])] = CreateSubEpochSegments(pf_in.ch, j - 1)
        /\ \A b \in 1..Len(pf_out.builds) :
              \A k \in 1..Len(pf_out.builds[b].picks) :
                 LET pick == pf_out.builds[b].picks[k]
                     full == CreateSubEpochSegments(pf_in.ch, pick.sub_epoch_n)
                     got == SegmentsOfPick(pf_out.builds[b], k)
                 IN  /\ Len(got) = Len(full)
                     /\ got[pick.index + 1] = full[pick.index + 1]
                     /\ \A i \in 1..Len(full) :
                           i # pick.index + 1 => got[i] = CompressSegment(full[i])

\* Two builds sample the same sub-epoch, the later one takes its segments
\* from the store and keeps another segment full, one that compression would
\* have changed
C38_Witness ==
    /\ pf_out # Idle /\ pf_out.stage = "stored"
    /\ \E a \in 1..Len(pf_out.builds), b \in 1..Len(pf_out.builds) :
          /\ a < b
          /\ \E k \in 1..Len(pf_out.builds[a].picks), m \in 1..Len(pf_out.builds[b].picks) :
                LET first == pf_out.builds[a].picks[k]
                    later == pf_out.builds[b].picks[m]
                    got == SegmentsOfPick(pf_out.builds[b], m)
                IN  /\ first.sub_epoch_n = later.sub_epoch_n
                    /\ first.built /\ ~later.built
                    /\ first.index # later.index
                    /\ got[later.index + 1] # CompressSegment(got[later.index + 1])


\* C39: a call of get_proof_of_weight that returns None leaves the
\* handler's tip and proof as they were before the call returned.
C39_NoneLeavesPair ==
    [][(returned' # returned /\ returned'.value = "None") =>
           (proof' = proof /\ tip' = tip)]_vars

\* The handler holds the proof of one tip, and the last call, for another
\* tip that is known and high enough, went through the construction and
\* returned None
C39_Witness ==
    /\ ~IsNone(proof) /\ ~IsNone(tip)
    /\ returned \notin {Idle, Pending} /\ returned.value = "None"
    /\ returned.tip # Get(tip)
    /\ returned.tip <= HandlerChain.peak /\ returned.tip >= WEIGHT_PROOF_RECENT_BLOCKS


\* The number of challenge entries of a drawn segment
ChallengeCount(shape) == Cardinality({j \in DOMAIN shape : shape[j] \in {"c", "o"}})

\* C40 as stated: _validate_segment with sampled = False returns the same
\* on any segment and on compress_segment of it
C40_SameOnAnySegment ==
    (pf_out # Idle /\ pf_out.stage = "both") => pf_out.full = pf_out.compressed

\* C40 amended: _validate_segment with sampled = False returns the same on
\* a segment and on compress_segment of it when the segment has at most one
\* challenge entry, whatever the proofs of the entries after it
C40_SameOnOneChallenge ==
    (pf_out # Idle /\ pf_out.stage = "both" /\ ChallengeCount(pf_in.shape) <= 1) =>
        pf_out.full = pf_out.compressed

\* A segment that passes without being sampled, with a block and a slot end
\* after its challenge entry whose proofs compression strips
C40_Witness ==
    /\ pf_out # Idle /\ pf_out.stage = "both"
    /\ ChallengeCount(pf_in.shape) = 1
    /\ pf_out.full.kind = "ok" /\ pf_out.compressed = pf_out.full
    /\ CompressSegment(pf_out.segment) # pf_out.segment
    /\ \E i, j, k \in DOMAIN pf_in.shape :
          i < j /\ i < k /\ pf_in.shape[i] \in {"c", "o"} /\ pf_in.shape[j] = "b"
          /\ pf_in.shape[k] = "e"

===========================================================================
